---- MODULE Spec2Model ----
(***************************************************************************)
(* The crawl engine of cryptocrawl: Crawler::crawl_with_streaming          *)
(* (crawler/src/crawler.rs).  A crawl seeds a two-tier frontier, spawns a  *)
(* pool of workers over shared, mutex-protected state (queues, visited     *)
(* set, depth map) and atomic counters, joins them and finalises a         *)
(* CrawlResult.  One action is one lock-protected region or one atomic     *)
(* access of a worker, together with the thread-local code around it.      *)
(***************************************************************************)
EXTENDS Integers, Sequences, FiniteSets, Bags, TLC

\* ------------------------------------------------------------------ bounds
NumWorkers == 2          \* workers of the pool (num_workers)
MaxDepthBound == 2       \* task.max_depth ranges over 0..MaxDepthBound
MaxLinksBound == 2       \* task.max_links ranges over 0..MaxLinksBound
MaxFaults == 1           \* body-decode failures and HTTP 429 answers of one run
MaxEntries == 2          \* <loc> entries of one sitemap document
MaxCrawls == 2           \* calls of crawl on one Crawler
MaxRetryFaults == 2      \* body-decode failures in the retry scenario
PoolWorkers == 4         \* workers of the pool in the robots-check scenario

\* ------------------------------------------------------- program constants
BatchSize == 10          \* URLs a worker takes from a queue in one refill
MaxRetries == 3          \* retry entries with this many attempts are dropped
DefaultMaxLinks == 1000  \* task.max_links.unwrap_or(1000)
RobotsSampling == 3      \* worker_id % 3 == 0 performs the robots check
MaxSitemapSeeds == 100   \* sitemap URLs added to the initial queue at most
RenderDepth == 1         \* pages of depth <= 1 are candidates for rendering
CacheValidity == 3600    \* seconds a robots or sitemap cache entry is valid
UrlCacheTtl == 60        \* seconds an entry of allowed_urls_cache is used
UrlCacheCapacity == 1000 \* allowed_urls_cache is pruned above this length
PruneDivisor == 5        \* the pruning removes len / 5 of the oldest entries

Workers == 0 .. (NumWorkers - 1)

\* -------------------------------------------------------------------- URLs
\* A URL is its host (a string of characters), its path (segments) and its
\* fragment; Url::to_string is the record itself.
HostBase  == <<"e", ".", "c">>
HostSub   == <<"s", ".", "e", ".", "c">>
HostOther == <<"o", ".", "c">>
HostTrap  == <<"x", "e", ".", "c">>

MkUrl(h, p, f) == [host |-> h, path |-> p, frag |-> f]

NoUrl == [host |-> <<>>, path |-> <<>>, frag |-> ""]

\* Url::set_fragment(None)
set_fragment_none(u) == [u EXCEPT !.frag = ""]

\* str::ends_with on strings of characters
ends_with(s, suffix) ==
    /\ Len(s) >= Len(suffix)
    /\ SubSeq(s, Len(s) - Len(suffix) + 1, Len(s)) = suffix

is_same_domain_nodot(url, target_domain, include_subdomains) ==
    LET host == url.host
    IN  \/ host = target_domain
        \/ include_subdomains /\ ends_with(host, target_domain)

\* is_same_domain (crawler.rs): the host is the target domain, or, with
\* include_subdomains, ends with "." followed by the target domain.
is_same_domain(url, target_domain, include_subdomains) ==
    LET host == url.host
        is_same == host = target_domain
        is_subdomain == include_subdomains
                        /\ ends_with(host, <<".">> \o target_domain)
    IN  is_same \/ is_subdomain

\* str::contains("/marker/") on the URL string: marker is a path segment that
\* is followed by another segment.
contains_dir(u, marker) ==
    \E i \in 1 .. (Len(u.path) - 1) : u.path[i] = marker

\* the tier of a link found in static HTML
has_important_patterns_static(u) ==
    \E m \in {"crates", "categories", "keywords", "products", "articles",
              "docs", "blog"} : contains_dir(u, m)

\* the tier of a link found by the renderer
has_important_patterns_rendered(u) ==
    \E m \in {"docs", "handbook", "play", "download"} : contains_dir(u, m)

\* the tier of a URL put back after HTTP 429
is_important_requeue(u) ==
    \E m \in {"crates", "categories", "keywords"} : contains_dir(u, m)

\* a page that is always a candidate for rendering when JS-dependent
is_render_candidate(u) ==
    \E m \in {"crates", "keywords", "categories", "docs"} : contains_dir(u, m)

\* ------------------------------------------------------------- the web site
SeedUrl   == MkUrl(HostBase, <<>>, "")
PageA     == MkUrl(HostBase, <<"docs", "a">>, "")
PageAFrag == MkUrl(HostBase, <<"docs", "a">>, "f")
PageB     == MkUrl(HostBase, <<"b">>, "")
PageM     == MkUrl(HostBase, <<"m">>, "")
PageSub   == MkUrl(HostSub, <<"s">>, "")
PageOther == MkUrl(HostOther, <<"o">>, "")
PageTrap  == MkUrl(HostTrap, <<"t">>, "")
\* a URL that parses and has no host (mailto:m), as a sitemap may list it
MailUrl   == MkUrl(<<>>, <<"m">>, "")
\* a second site on the same host: a home page with three same-domain and two
\* cross-domain links, whose children link further down
HomeUrl   == MkUrl(HostBase, <<"home">>, "")
Child1    == MkUrl(HostBase, <<"blog", "c1">>, "")
Child2    == MkUrl(HostBase, <<"c2">>, "")
Child3    == MkUrl(HostBase, <<"c3">>, "")
GrandChild == MkUrl(HostBase, <<"c1", "g">>, "")

\* a third site on the same host: a chain of pages, page n linking to page
\* n + 1; the pages with an even number lie under /docs/
ChainLength == DefaultMaxLinks + 1

ChainUrl(n) ==
    MkUrl(HostBase,
          IF n % 2 = 0 THEN <<"docs", "k", ToString(n)>>
          ELSE <<"k", ToString(n)>>,
          "")

IsChain(u) == Len(u.path) >= 2 /\ u.path[Len(u.path) - 1] = "k"

ChainIndex(u) ==
    CHOOSE n \in 0 .. ChainLength : ToString(n) = u.path[Len(u.path)]

\* a fourth site on the same host: a hub page that links to more pages of
\* each tier than one batch holds; the pages under /docs/ come first
HubLeaves == BatchSize + 1

HubUrl == MkUrl(HostBase, <<"h">>, "")

LeafUrl(tier, n) ==
    MkUrl(HostBase,
          IF tier = "important" THEN <<"docs", "l", ToString(n)>>
          ELSE <<"l", ToString(n)>>,
          "")

HubHrefs ==
    [i \in 1 .. (2 * HubLeaves) |->
        IF i <= HubLeaves THEN LeafUrl("important", i)
        ELSE LeafUrl("regular", i - HubLeaves)]

\* a fifth site on the same host: a JavaScript-dependent entry page, a plain
\* page below it, and below that JavaScript-dependent pages under /blog/,
\* under /docs/ and under neither, and a plain page under /docs/
AppUrl    == MkUrl(HostBase, <<"app">>, "")
AppMenu   == MkUrl(HostBase, <<"n">>, "")
AppBlog   == MkUrl(HostBase, <<"blog", "j">>, "")
AppDocs   == MkUrl(HostBase, <<"docs", "j">>, "")
AppPlain  == MkUrl(HostBase, <<"j">>, "")
AppManual == MkUrl(HostBase, <<"docs", "s">>, "")

\* <a href> targets of the statically fetched HTML, in document order, as
\* base_url.join(href) yields them (fragments still present)
StaticHrefs(u) ==
    CASE u = SeedUrl -> <<PageA, PageAFrag, PageSub, PageTrap>>
      [] u = PageM   -> <<PageB>>
      [] u = PageB   -> <<PageA, PageOther>>
      [] u = PageA   -> <<SeedUrl>>
      [] u = HomeUrl -> <<Child1, PageOther, Child2, PageTrap, Child3>>
      [] u = Child1  -> <<GrandChild, HomeUrl>>
      [] u = Child2  -> <<GrandChild>>
      [] u = Child3  -> <<Child1>>
      [] u = HubUrl  -> HubHrefs
      [] u = AppUrl  -> <<AppMenu>>
      [] u = AppMenu -> <<AppBlog, AppDocs, AppPlain, AppManual>>
      [] IsChain(u)  -> IF ChainIndex(u) < ChainLength
                        THEN <<ChainUrl(ChainIndex(u) + 1)>> ELSE <<>>
      [] OTHER       -> <<>>

\* links the renderer reports for a page (HeadlessBrowser::extract_links)
RenderedLinks(u) ==
    CASE u = SeedUrl -> <<PageAFrag, PageA, PageB, PageSub, PageTrap>>
      [] u = AppUrl  -> <<AppMenu>>
      [] OTHER       -> <<>>

\* is_javascript_dependent(html).0 for the page served at u
JsDependent(u) == u \in {SeedUrl, AppUrl, AppBlog, AppDocs, AppPlain}

\* body.len() of the static and of the rendered content
BodyLen(u, body) == IF body = "rendered" THEN 2 ELSE 1

\* paths robots.txt disallows for the crawler's user agent
RobotsDisallowed == {<<"b">>}

\* RobotsManager::is_allowed: the verdict of the domain's robots.txt
is_allowed(u) == u.path \notin RobotsDisallowed

\* ------------------------------------------------------------------- state
VARIABLES
    task,                  \* Task: target_url, max_depth, follow_subdomains,
                           \* max_links
    use_headless_chrome,   \* Crawler.use_headless_chrome
    shared_browser,        \* TRUE when the shared renderer handle is Some
    sitemap_urls,          \* what get_sitemap_urls returned, in iteration order
    important_queue,       \* Arc<Mutex<VecDeque<Url>>>
    regular_queue,         \* Arc<Mutex<VecDeque<Url>>>
    visited,               \* Arc<Mutex<HashSet<String>>>
    depth_map,             \* Arc<Mutex<HashMap<String, usize>>>
    pages_count,           \* Arc<AtomicUsize>
    total_size,            \* Arc<AtomicUsize>
    page_records,          \* bag of the CrawledPage values workers created
    pc,                    \* each worker's position in its loop
    local_urls_to_process, \* each worker's local buffer
    retry_queue,           \* each worker's VecDeque<(Url, usize)>
    current_url,           \* each worker's current_url
    current_depth,         \* each worker's current_depth
    important_empty,       \* each worker's important_empty
    regular_empty,         \* each worker's regular_empty
    body,                  \* each worker's content: "none", "static", "rendered"
    unvisited_links,       \* each worker's new_links, then unvisited_links
    main_pc,               \* the crawl() caller: "joining", then "returned"
    result,                \* the CrawlResult
    enqueued,              \* history: bag of URLs enqueued as first-seen
    faults,                \* body-decode failures and HTTP 429 answers so far
    fault_budget,          \* the failures of these two kinds the site produces
    rt_file,               \* robots.txt: the lines of the file handed to parse
    robots_txt,            \* robots.txt: the RobotsTxt (rules, default_rules)
    rt_user_agent,         \* robots.txt: the user agent of the can_fetch call
    rt_path,               \* robots.txt: url.path() of the can_fetch call
    rt_pc,                 \* robots.txt: "idle", "file", "parsed", "answered"
    rt_answer,             \* robots.txt: what can_fetch returned
    now,                   \* SystemTime::now(), in seconds
    http_log,              \* history: the robots.txt and sitemap requests sent
    robots_status,         \* the answer to GET /robots.txt: "200", "404", "error"
    sm_docs,               \* the sitemap documents the site serves, by URL
    robots_manager,        \* the RobotsManager crawl works with (its caches)
    sm_todo,               \* get_sitemap_urls: start sitemaps still to process
    sitemap_stack,         \* process_sitemap_non_recursive: sitemap_stack
    visited_sitemaps,      \* get_sitemap_urls: visited_sitemaps
    all_urls,              \* get_sitemap_urls: all_urls
    sm_pc,                 \* get_sitemap_urls: "idle", "call", "for", "while",
                           \* "returned"
    sm_result,             \* get_sitemap_urls: the set returned, if any
    seed_text,             \* task.target_url as crawl receives it (a String)
    crawl_no,              \* history: the calls of crawl so far
    crawler_manager,       \* Crawler.robots_manager (its caches)
    headless_browser,      \* Crawler.headless_browser: None or Some(renderer)
    browsers,              \* the renderers started so far: "running",
                           \* "stopped", or "dropped" (handle released, no stop)
    worker_robots_manager, \* each checking worker's RobotsManager (its caches)
    allowed_urls_cache,    \* the VecDeque behind the Arc all managers share
    is_allowed_pc,         \* is_allowed of each checking worker: "idle", or
                           \* "fetching" while its robots.txt request is out
    is_allowed_url,        \* the URL of the is_allowed call under way
    is_allowed_result,     \* what the worker's last is_allowed call returned
    html,                  \* is_javascript_dependent: the text it is given
    js_pc,                 \* is_javascript_dependent: "idle", "input",
                           \* "returned"
    js_result,             \* is_javascript_dependent: (bool, reasons), if any
    lock_owner,            \* the worker holding the guard of each Mutex, if any
    lock_todo              \* each worker's lock() calls and guard drops still
                           \* to come on the path it is on

worker_vars == <<pc, local_urls_to_process, retry_queue, current_url,
                 current_depth, important_empty, regular_empty, body,
                 unvisited_links>>
robots_txt_vars == <<rt_file, robots_txt, rt_user_agent, rt_path, rt_pc,
                     rt_answer>>
\* the components of the crawler that the worker loop does not write
net_vars == <<now, http_log, robots_status>>
sitemap_vars == <<sm_docs, robots_manager, sm_todo, sitemap_stack,
                  visited_sitemaps, all_urls, sm_pc, sm_result>>
lifecycle_vars == <<seed_text, crawl_no, crawler_manager, headless_browser,
                    browsers>>
checker_vars == <<worker_robots_manager, allowed_urls_cache, is_allowed_pc,
                  is_allowed_url, is_allowed_result>>
classifier_vars == <<html, js_pc, js_result>>
lock_vars == <<lock_owner, lock_todo>>
component_vars == <<robots_txt_vars, checker_vars, classifier_vars, lock_vars,
                    net_vars, sitemap_vars, lifecycle_vars>>
world_vars == <<task, use_headless_chrome, shared_browser, sitemap_urls,
                fault_budget, component_vars>>
shared_vars == <<important_queue, regular_queue, visited, depth_map,
                 pages_count, total_size, page_records>>
vars == <<world_vars, shared_vars, worker_vars, main_pc, result, enqueued,
          faults>>

\* ---------------------------------------------------------------- helpers
\* Option<usize>
None == <<>>
Some(n) == <<n>>

\* task.max_links.unwrap_or(1000)
max_links_or_default(t) ==
    IF t.max_links = None THEN DefaultMaxLinks ELSE t.max_links[1]

InSeq(x, s) == \E i \in 1 .. Len(s) : s[i] = x

RECURSIVE FilterSeq(_, _)
\* keep the elements of s that are in the set keep
FilterSeq(s, keep) ==
    IF s = <<>> THEN <<>>
    ELSE IF Head(s) \in keep THEN <<Head(s)>> \o FilterSeq(Tail(s), keep)
         ELSE FilterSeq(Tail(s), keep)

SeqToSet(s) == {s[i] : i \in 1 .. Len(s)}

\* HashMap::insert of every key of keys with value d
InsertAll(map, keys, d) ==
    [k \in (DOMAIN map) \cup keys |-> IF k \in keys THEN d ELSE map[k]]

\* *depth_map.get(url).unwrap_or(&0)
depth_or_zero(map, u) == IF u \in DOMAIN map THEN map[u] ELSE 0

RECURSIVE seed_from_sitemap(_, _, _, _)
\* the loop over sitemap_urls: a URL not yet seen by the local visited set and
\* not yet in initial_urls is pushed, until MaxSitemapSeeds were added
seed_from_sitemap(urls, initial_urls, seen, added) ==
    IF urls = <<>> \/ added >= MaxSitemapSeeds THEN initial_urls
    ELSE LET u == Head(urls)
         IN  IF u \in seen
             THEN seed_from_sitemap(Tail(urls), initial_urls, seen, added)
             ELSE IF InSeq(u, initial_urls)
                  THEN seed_from_sitemap(Tail(urls), initial_urls,
                                         seen \cup {u}, added)
                  ELSE seed_from_sitemap(Tail(urls), Append(initial_urls, u),
                                         seen \cup {u}, added + 1)

\* initial_urls: the fragment-free target URL, then the sitemap URLs
initial_urls_of(target, sitemap) ==
    seed_from_sitemap(sitemap, <<set_fragment_none(target)>>, {}, 0)

\* CrawlResult::new at the instant t
NewResult(t) ==
    [status |-> "InProgress", pages_count |-> 0, pages |-> <<>>,
     total_size |-> 0, start_time |-> t, end_time |-> None]

complete_without_end_time(r, t) == [r EXCEPT !.status = "Completed"]

\* CrawlResult::complete at the instant t
complete(r, t) == [r EXCEPT !.status = "Completed", !.end_time = Some(t)]

\* ---------------------------------------------------- robots.txt (robots.rs)
\* Strings of robots.rs are sequences of characters.
starts_with(s, prefix) ==
    /\ Len(s) >= Len(prefix)
    /\ SubSeq(s, 1, Len(prefix)) = prefix

\* char::to_lowercase on the letters that occur
Lower(c) ==
    CASE c = "B" -> "b"
      [] c = "O" -> "o"
      [] c = "T" -> "t"
      [] c = "E" -> "e"
      [] c = "R" -> "r"
      [] OTHER   -> c

\* str::to_lowercase
to_lowercase(s) == [i \in 1 .. Len(s) |-> Lower(s[i])]

\* enum Rule
Allow(pattern) == [kind |-> "Allow", pattern |-> pattern]
Disallow(pattern) == [kind |-> "Disallow", pattern |-> pattern]

\* RobotsTxt::default
RobotsTxtDefault == [rules |-> <<>>, default_rules |-> <<>>]

\* the "*" user agent
Star == <<"*">>

\* RobotsTxt::path_matches
path_matches(pattern, path) ==
    IF pattern = <<"/">> THEN TRUE
    ELSE IF ends_with(pattern, <<"*">>)
         THEN starts_with(path, SubSeq(pattern, 1, Len(pattern) - 1))
         ELSE path = pattern \/ starts_with(path, pattern \o <<"/">>)

RECURSIVE check_rules_scan(_, _, _, _)
\* the loop of check_rules over the rules, carrying matched and verdict
check_rules_scan(rules, path, matched, verdict) ==
    IF rules = <<>> THEN IF matched THEN Some(verdict) ELSE None
    ELSE IF path_matches(Head(rules).pattern, path)
         THEN check_rules_scan(Tail(rules), path, TRUE,
                               Head(rules).kind = "Allow")
         ELSE check_rules_scan(Tail(rules), path, matched, verdict)

RECURSIVE check_rules_first(_, _)
check_rules_first(rules, path) ==
    IF rules = <<>> THEN None
    ELSE IF path_matches(Head(rules).pattern, path)
         THEN Some(Head(rules).kind = "Allow")
         ELSE check_rules_first(Tail(rules), path)

\* RobotsTxt::check_rules
check_rules(rules, path) == check_rules_scan(rules, path, FALSE, FALSE)

RECURSIVE prefix_verdict(_, _, _, _)
\* the loop of can_fetch over the HashMap `rules`, whose iteration order is
\* `order`: the first group whose agent is a prefix of the user agent and that
\* has a matching rule decides
prefix_verdict(rt, user_agent, path, order) ==
    IF order = <<>> THEN None
    ELSE LET agent == Head(order)
             verdict == IF starts_with(user_agent, agent)
                        THEN check_rules(rt.rules[agent], path)
                        ELSE None
         IN  IF verdict # None THEN verdict
             ELSE prefix_verdict(rt, user_agent, path, Tail(order))

\* HashMap::get(agent) followed by check_rules
group_verdict(rt, agent, path) ==
    IF agent \in DOMAIN rt.rules THEN check_rules(rt.rules[agent], path)
    ELSE None

can_fetch_star_first(rt, agent, path, order) ==
    LET user_agent == to_lowercase(agent)
        exact == group_verdict(rt, user_agent, path)
        prefix == prefix_verdict(rt, user_agent, path, order)
        star == group_verdict(rt, Star, path)
        defaults == check_rules(rt.default_rules, path)
    IN  IF exact # None THEN exact[1]
        ELSE IF star # None THEN star[1]
        ELSE IF prefix # None THEN prefix[1]
        ELSE IF defaults # None THEN defaults[1]
        ELSE TRUE

\* RobotsTxt::can_fetch; `order` is the iteration order of the HashMap
can_fetch(rt, agent, path, order) ==
    LET user_agent == to_lowercase(agent)
        exact == group_verdict(rt, user_agent, path)
        prefix == prefix_verdict(rt, user_agent, path, order)
        star == group_verdict(rt, Star, path)
        defaults == check_rules(rt.default_rules, path)
    IN  IF exact # None THEN exact[1]
        ELSE IF prefix # None THEN prefix[1]
        ELSE IF star # None THEN star[1]
        ELSE IF defaults # None THEN defaults[1]
        ELSE TRUE

RECURSIVE push_rule(_, _, _)
\* rules.entry(agent).or_insert_with(Vec::new).push(rule) for each agent
push_rule(rules, agents, rule) ==
    IF agents = <<>> THEN rules
    ELSE LET agent == Head(agents)
             old == IF agent \in DOMAIN rules THEN rules[agent] ELSE <<>>
             new == [a \in (DOMAIN rules) \cup {agent} |->
                        IF a = agent THEN Append(old, rule) ELSE rules[a]]
         IN  push_rule(new, Tail(agents), rule)

\* the allow and disallow arms of parse
add_rule(st, rule) ==
    IF st.current_agents = <<>>
    THEN [st EXCEPT !.default_rules = Append(@, rule)]
    ELSE [st EXCEPT !.rules = push_rule(@, st.current_agents, rule)]

\* one line of parse, split at its first colon
parse_line(st, line) ==
    CASE line.directive = "user-agent" ->
           LET kept == IF st.current_agents # <<>>
                          /\ st.current_agents[1] \in DOMAIN st.rules
                       THEN <<>> ELSE st.current_agents
           IN  [st EXCEPT !.current_agents =
                              Append(kept, to_lowercase(line.value))]
      [] line.directive = "allow" -> add_rule(st, Allow(line.value))
      [] line.directive = "disallow" ->
           IF line.value = <<>> THEN st
           ELSE add_rule(st, Disallow(line.value))
      [] OTHER -> st

RECURSIVE parse_lines(_, _)
parse_lines(st, lines) ==
    IF lines = <<>> THEN st
    ELSE parse_lines(parse_line(st, Head(lines)), Tail(lines))

\* RobotsTxt::parse
parse(content) ==
    LET st == parse_lines([rules |-> <<>>, default_rules |-> <<>>,
                           current_agents |-> <<>>], content)
    IN  [rules |-> st.rules, default_rules |-> st.default_rules]

\* the lines of a robots.txt file, each split at its first colon
UserAgentLine(agent) == [directive |-> "user-agent", value |-> agent]
AllowLine(p) == [directive |-> "allow", value |-> p]
DisallowLine(p) == [directive |-> "disallow", value |-> p]

PathA == <<"/", "a">>
PathAB == <<"/", "a", "/", "b">>
PathABC == <<"/", "a", "/", "b", "/", "c">>
PathAX == <<"/", "a", "/", "x">>
PathC == <<"/", "c">>

\* the rule lines a group of a file may hold
RuleLines ==
    {<<>>,
     <<DisallowLine(PathA), AllowLine(PathAB)>>,
     <<AllowLine(PathAB), DisallowLine(PathA)>>,
     <<AllowLine(PathA)>>,
     <<DisallowLine(PathAB)>>}

AgentBot == <<"B", "o", "t">>
AgentBo == <<"b", "o">>
AgentB == <<"b">>

\* a group of the file: its User-agent line and its rule lines
Group(agent, lines) ==
    IF lines = <<>> THEN <<>> ELSE <<UserAgentLine(agent)>> \o lines

\* a file: rules before any User-agent line, then the groups
RobotsFile(defaults, star, b, bot, bo) ==
    defaults \o Group(Star, star) \o Group(AgentB, b) \o Group(AgentBot, bot)
    \o Group(AgentBo, bo)

\* the rule lines of the ungrouped rules and of the second prefix group
FewRuleLines ==
    {<<>>, <<AllowLine(PathA)>>, <<DisallowLine(PathAB)>>}

RobotsFiles ==
    {RobotsFile(d, s, b, bot, bo) :
        d \in FewRuleLines, s \in RuleLines, b \in RuleLines,
        bot \in RuleLines, bo \in FewRuleLines}

\* the sequences that list every element of S once
Orders(S) ==
    {o \in [1 .. Cardinality(S) -> S] :
        \A i, j \in 1 .. Cardinality(S) : o[i] = o[j] => i = j}

RobotsTxtIdle ==
    /\ rt_file = <<>>
    /\ robots_txt = RobotsTxtDefault
    /\ rt_user_agent = <<>>
    /\ rt_path = <<>>
    /\ rt_pc = "idle"
    /\ rt_answer = TRUE

\* ------------------------------------------------------ sitemaps (robots.rs)
\* str::find(pattern) on s[from ..]: the offset of the first occurrence, as
\* Some(offset), or None
RECURSIVE find_from(_, _, _)
find_from(s, pattern, offset) ==
    IF offset + Len(pattern) > Len(s) THEN None
    ELSE IF SubSeq(s, offset + 1, offset + Len(pattern)) = pattern
         THEN Some(offset)
         ELSE find_from(s, pattern, offset + 1)

\* content[pos..].find(pattern): the offset relative to pos
find(content, pos, pattern) ==
    LET r == find_from(content, pattern, pos)
    IN  IF r = None THEN None ELSE Some(r[1] - pos)

\* str::contains(pattern)
contains(text, pattern) == find(text, 0, pattern) # None

\* str::rfind(c): the offset of the last occurrence of the character c
rfind(s, c) ==
    LET hits == {i \in 1 .. Len(s) : s[i] = c}
    IN  IF hits = {} THEN None
        ELSE Some((CHOOSE i \in hits : \A j \in hits : j <= i) - 1)

\* str::trim
RECURSIVE trim(_)
trim(s) ==
    IF s = <<>> THEN s
    ELSE IF Head(s) = " " THEN trim(Tail(s))
         ELSE IF s[Len(s)] = " " THEN trim(SubSeq(s, 1, Len(s) - 1))
              ELSE s

TagLoc == <<"<", "l", "o", "c", ">">>
TagLocEnd == <<"<", "/", "l", "o", "c", ">">>
TagSitemap == <<"<", "s", "i", "t", "e", "m", "a", "p">>
TagUrl == <<"<", "u", "r", "l">>

\* last_open_tag: the tag at the last '<' of the text before the URL
last_open_tag(preceding) ==
    LET idx == rfind(preceding, "<")
    IN  IF idx = None THEN None
        ELSE LET tag_start == SubSeq(preceding, idx[1] + 1, Len(preceding))
             IN  IF starts_with(tag_start, TagSitemap) THEN Some("sitemap")
                 ELSE IF starts_with(tag_start, TagUrl) THEN Some("url")
                      ELSE None

RECURSIVE extract_urls_scan(_, _, _, _)
\* the while loop of extract_urls_from_sitemap from offset pos on
extract_urls_scan(content, pos, sitemap_list, page_list) ==
    LET loc_start == find(content, pos, TagLoc)
    IN  IF loc_start = None
        THEN [sitemap_urls |-> sitemap_list, page_urls |-> page_list]
        ELSE LET pos1 == pos + loc_start[1] + 5
                 loc_end == find(content, pos1, TagLocEnd)
             IN  IF loc_end = None
                 THEN [sitemap_urls |-> sitemap_list, page_urls |-> page_list]
                 ELSE LET url == trim(SubSeq(content, pos1 + 1,
                                             pos1 + loc_end[1]))
                          tag == last_open_tag(SubSeq(content, 1, pos1))
                          pos2 == pos1 + loc_end[1] + 6
                      IN  IF tag = Some("sitemap")
                          THEN extract_urls_scan(content, pos2,
                                   Append(sitemap_list, url), page_list)
                          ELSE extract_urls_scan(content, pos2, sitemap_list,
                                   Append(page_list, url))

\* extract_urls_from_sitemap
extract_urls_from_sitemap(content) ==
    extract_urls_scan(content, 0, <<>>, <<>>)

\* the text of a sitemap document: a list of <sitemap> and <url> entries, each
\* with its <loc>, inside <sitemapindex> or <urlset>
SitemapEntry(loc) ==
    TagSitemap \o <<">">> \o TagLoc \o loc \o TagLocEnd
    \o <<"<", "/", "s", "i", "t", "e", "m", "a", "p", ">">>

UrlEntry(loc) ==
    TagUrl \o <<">">> \o TagLoc \o loc \o TagLocEnd
    \o <<"<", "/", "u", "r", "l", ">">>

EntryText(entry) ==
    IF entry.kind = "sitemap" THEN SitemapEntry(entry.loc)
    ELSE UrlEntry(entry.loc)

RECURSIVE EntriesText(_)
EntriesText(entries) ==
    IF entries = <<>> THEN <<>>
    ELSE EntryText(Head(entries)) \o EntriesText(Tail(entries))

DocumentText(entries) ==
    IF \E i \in 1 .. Len(entries) : entries[i].kind = "sitemap"
    THEN TagSitemap \o <<"i", "n", "d", "e", "x", ">">> \o EntriesText(entries)
         \o <<"<", "/", "s", "i", "t", "e", "m", "a", "p", "i", "n", "d", "e",
              "x", ">">>
    ELSE TagUrl \o <<"s", "e", "t", ">">> \o EntriesText(entries)
         \o <<"<", "/", "u", "r", "l", "s", "e", "t", ">">>

\* "http://"
Scheme == <<"h", ":", "/", "/">>

\* format!("http://{}/sitemap.xml", domain)
default_sitemap_url(domain) == Scheme \o domain \o <<"/", "s">>

\* the sitemap documents of the site and its page URLs
SitemapA == Scheme \o HostBase \o <<"/", "s">>
SitemapB == Scheme \o HostBase \o <<"/", "t">>
PageUrlP == Scheme \o HostBase \o <<"/", "b">>
PageUrlQ == Scheme \o HostBase \o <<"/", "m">>

SitemapLine(url) == [directive |-> "sitemap", value |-> url]

\* a map with no key
EmptyMap == [k \in {} |-> 0]

\* HashMap::insert
MapInsert(map, key, value) ==
    [k \in (DOMAIN map) \cup {key} |-> IF k = key THEN value ELSE map[k]]

\* ------------------------------------------------------ Url::parse (url crate)
\* a path segment or fragment of one character is that character
Segment(chars) == IF Len(chars) = 1 THEN chars[1] ELSE chars

\* the length of the run of text in front of the first occurrence of c
run_before(text, c) ==
    LET r == find(text, 0, <<c>>)
    IN  IF r = None THEN Len(text) ELSE r[1]

RECURSIVE path_segments(_)
\* the segments of a path, split at '/'
path_segments(text) ==
    IF text = <<>> THEN <<>>
    ELSE IF Head(text) = "/" THEN path_segments(Tail(text))
         ELSE LET n == run_before(text, "/")
              IN  <<Segment(SubSeq(text, 1, n))>>
                  \o path_segments(SubSeq(text, n + 1, Len(text)))

\* Url::parse: Err without a scheme or with an empty host after "//";
\* a URL without "//" after its scheme has no host
parse_url(text) ==
    LET colon == find(text, 0, <<":">>)
    IN  IF colon = None THEN [ok |-> FALSE, url |-> NoUrl]
        ELSE LET after == SubSeq(text, colon[1] + 2, Len(text))
             IN  IF ~starts_with(after, <<"/", "/">>)
                 THEN [ok |-> TRUE, url |-> NoUrl]
                 ELSE LET rest == SubSeq(after, 3, Len(after))
                          before_frag == SubSeq(rest, 1, run_before(rest, "#"))
                          frag == SubSeq(rest, Len(before_frag) + 2, Len(rest))
                          host == SubSeq(before_frag, 1,
                                         run_before(before_frag, "/"))
                          path == SubSeq(before_frag, Len(host) + 1,
                                         Len(before_frag))
                      IN  IF host = <<>> THEN [ok |-> FALSE, url |-> NoUrl]
                          ELSE [ok |-> TRUE,
                                url |-> MkUrl(host, path_segments(path),
                                              IF frag = <<>> THEN ""
                                              ELSE Segment(frag))]

\* initial_url.host_str()
host_str(url) == IF url.host = <<>> THEN None ELSE Some(url.host)

RECURSIVE parse_all(_)
\* the sitemap URLs that Url::parse accepts, parsed, in order
parse_all(texts) ==
    IF texts = <<>> THEN <<>>
    ELSE LET r == parse_url(Head(texts))
         IN  IF r.ok THEN <<r.url>> \o parse_all(Tail(texts))
             ELSE parse_all(Tail(texts))

\* RobotsManager::default: the caches a manager owns
NewManager ==
    [robots_cache |-> EmptyMap, sitemap_cache |-> EmptyMap,
     negative_cache |-> {}]

RECURSIVE sitemap_lines(_)
\* get_sitemaps_from_robots: the values of the Sitemap: lines of the
\* lowercased file, trimmed, the empty ones left out
sitemap_lines(content) ==
    IF content = <<>> THEN <<>>
    ELSE LET line == Head(content)
             url == trim(to_lowercase(line.value))
         IN  IF line.directive = "sitemap" /\ url # <<>>
             THEN <<url>> \o sitemap_lines(Tail(content))
             ELSE sitemap_lines(Tail(content))

SitemapIdle ==
    /\ sm_docs = EmptyMap
    /\ robots_status = "404"
    /\ robots_manager = NewManager
    /\ now = 0
    /\ http_log = <<>>
    /\ sm_todo = <<>>
    /\ sitemap_stack = <<>>
    /\ visited_sitemaps = {}
    /\ all_urls = {}
    /\ sm_pc = "idle"
    /\ sm_result = None

\* the instants the clock may jump to: past the TTL of the per-URL cache, and
\* past the validity of the robots and sitemap caches
LaterInstants == {UrlCacheTtl + 1, CacheValidity + 1}

\* the Crawler in its first crawl, at the point where it spawns its workers:
\* with rendering switched on, the renderer started at entry was replaced by
\* the shared one
LifecycleAtSpawn ==
    /\ seed_text = <<>>
    /\ crawl_no = 1
    /\ crawler_manager = NewManager
    /\ headless_browser = IF shared_browser THEN Some(2)
                          ELSE IF use_headless_chrome THEN Some(1) ELSE None
    /\ browsers = IF shared_browser THEN <<"dropped", "running">>
                  ELSE IF use_headless_chrome THEN <<"running">> ELSE <<>>

\* the workers that perform the robots check (worker_id % 3 == 0)
CheckingWorkers == {w \in 0 .. (PoolWorkers - 1) : w % RobotsSampling = 0}

\* the managers handed to the workers (clones of a manager that has fetched
\* no robots.txt through get_robots_parser), no is_allowed call under way
CheckersIdle ==
    /\ worker_robots_manager = [w \in CheckingWorkers |-> NewManager]
    /\ allowed_urls_cache = <<>>
    /\ is_allowed_pc = [w \in CheckingWorkers |-> "idle"]
    /\ is_allowed_url = [w \in CheckingWorkers |-> NoUrl]
    /\ is_allowed_result = [w \in CheckingWorkers |-> None]

\* no call of is_javascript_dependent under way
ClassifierIdle ==
    /\ html = <<>>
    /\ js_pc = "idle"
    /\ js_result = None

\* the Mutexes the workers of a crawl share
Locks == {"visited", "depth_map", "important_queue", "regular_queue"}

\* no guard is held and no worker is on its way to one
LocksIdle ==
    /\ lock_owner = [m \in Locks |-> None]
    /\ lock_todo = [w \in Workers |-> <<>>]

\* the components outside the crawl are at rest
ComponentsIdle ==
    /\ RobotsTxtIdle
    /\ SitemapIdle
    /\ LifecycleAtSpawn
    /\ CheckersIdle
    /\ ClassifierIdle
    /\ LocksIdle

\* ------------------------------------------------------------------- Init
Tasks ==
    [target_url : {SeedUrl},
     max_depth : 0 .. MaxDepthBound,
     max_links : {Some(n) : n \in 0 .. MaxLinksBound},
     follow_subdomains : BOOLEAN]

\* the state crawl_with_streaming has built when it spawns the workers
Seeded ==
    /\ important_queue = initial_urls_of(task.target_url, sitemap_urls)
    /\ regular_queue = <<>>
    /\ visited = {set_fragment_none(task.target_url)}
    /\ depth_map = [u \in {set_fragment_none(task.target_url)} |-> 0]
    /\ pages_count = 0
    /\ total_size = 0
    /\ page_records = EmptyBag
    /\ pc = [w \in Workers |-> "loop"]
    /\ local_urls_to_process = [w \in Workers |-> <<>>]
    /\ retry_queue = [w \in Workers |-> <<>>]
    /\ current_url = [w \in Workers |-> NoUrl]
    /\ current_depth = [w \in Workers |-> 0]
    /\ important_empty = [w \in Workers |-> FALSE]
    /\ regular_empty = [w \in Workers |-> FALSE]
    /\ body = [w \in Workers |-> "none"]
    /\ unvisited_links = [w \in Workers |-> <<>>]
    /\ main_pc = "joining"
    /\ result = NewResult(0)
    /\ enqueued = EmptyBag
    /\ faults = 0

Init ==
    /\ task \in Tasks
    /\ use_headless_chrome \in BOOLEAN
    /\ shared_browser = use_headless_chrome
    /\ sitemap_urls \in {<<>>, <<PageM>>}
    /\ fault_budget = MaxFaults
    /\ Seeded
    /\ ComponentsIdle

\* ------------------------------------------------------- the worker loop
Goto(w, l) == pc' = [pc EXCEPT ![w] = l]

\* current_url, content and link buffers go out of scope at `continue`
ClearCurrent(w) ==
    /\ current_url' = [current_url EXCEPT ![w] = NoUrl]
    /\ current_depth' = [current_depth EXCEPT ![w] = 0]
    /\ body' = [body EXCEPT ![w] = "none"]
    /\ unvisited_links' = [unvisited_links EXCEPT ![w] = <<>>]

budget_reached_one_early(count, t) == count + 1 >= max_links_or_default(t)

budget_reached_strict(count, t) == count > max_links_or_default(t)

\* the budget check at the head of the loop
budget_reached(count, t) == count >= max_links_or_default(t)

\* the retry queue after the head of the loop handled its front entry
retry_after_pop(rq) ==
    IF rq = <<>> THEN rq
    ELSE IF Head(rq).retries < MaxRetries
         THEN Append(Tail(rq), [url |-> Head(rq).url,
                                retries |-> Head(rq).retries + 1])
         ELSE Tail(rq)

\* the local buffer after the head of the loop handled the retry queue
local_after_retry(local, rq) ==
    IF rq # <<>> /\ Head(rq).retries < MaxRetries
    THEN Append(local, Head(rq).url)
    ELSE local

\* Loop head: stop at the page budget; else move the front retry entry to the
\* local buffer and go on to refill or to process.
LoopHead(w) ==
    /\ pc[w] = "loop"
    /\ IF budget_reached(pages_count, task)
       THEN /\ Goto(w, "done")
            /\ UNCHANGED <<local_urls_to_process, retry_queue>>
       ELSE LET local == local_after_retry(local_urls_to_process[w],
                                           retry_queue[w])
            IN  /\ retry_queue' = [retry_queue EXCEPT
                                     ![w] = retry_after_pop(retry_queue[w])]
                /\ local_urls_to_process' =
                       [local_urls_to_process EXCEPT ![w] = local]
                /\ Goto(w, IF local = <<>> THEN "refill_important"
                                           ELSE "dequeue")
    /\ UNCHANGED <<world_vars, shared_vars, current_url, current_depth,
                   important_empty, regular_empty, body, unvisited_links,
                   main_pc, result, enqueued, faults>>

batch_len_whole_queue(q) == Len(q)

\* the number of URLs one refill takes from a queue
batch_len(q) == IF Len(q) < BatchSize THEN Len(q) ELSE BatchSize

\* Refill from the important queue (one lock acquisition).
RefillImportant(w) ==
    /\ pc[w] = "refill_important"
    /\ LET n == batch_len(important_queue)
       IN  /\ local_urls_to_process' = [local_urls_to_process EXCEPT
                 ![w] = @ \o SubSeq(important_queue, 1, n)]
           /\ important_queue' =
                 SubSeq(important_queue, n + 1, Len(important_queue))
           /\ Goto(w, IF n = 0 THEN "refill_regular" ELSE "dequeue")
    /\ UNCHANGED <<world_vars, regular_queue, visited, depth_map, pages_count,
                   total_size, page_records, retry_queue, current_url,
                   current_depth, important_empty, regular_empty, body,
                   unvisited_links, main_pc, result, enqueued, faults>>

\* Refill from the regular queue when the important queue gave nothing.
RefillRegular(w) ==
    /\ pc[w] = "refill_regular"
    /\ LET n == batch_len(regular_queue)
       IN  /\ local_urls_to_process' = [local_urls_to_process EXCEPT
                 ![w] = @ \o SubSeq(regular_queue, 1, n)]
           /\ regular_queue' =
                 SubSeq(regular_queue, n + 1, Len(regular_queue))
           /\ Goto(w, IF n = 0 THEN "check_important" ELSE "dequeue")
    /\ UNCHANGED <<world_vars, important_queue, visited, depth_map,
                   pages_count, total_size, page_records, retry_queue,
                   current_url, current_depth, important_empty, regular_empty,
                   body, unvisited_links, main_pc, result, enqueued,
                   faults>>

\* important_empty = important_queue.lock().is_empty()
CheckImportantEmpty(w) ==
    /\ pc[w] = "check_important"
    /\ important_empty' = [important_empty EXCEPT
                             ![w] = (important_queue = <<>>)]
    /\ Goto(w, "check_regular")
    /\ UNCHANGED <<world_vars, shared_vars, local_urls_to_process,
                   retry_queue, current_url, current_depth, regular_empty,
                   body, unvisited_links, main_pc, result, enqueued,
                   faults>>

\* regular_empty = regular_queue.lock().is_empty()
CheckRegularEmpty(w) ==
    /\ pc[w] = "check_regular"
    /\ regular_empty' = [regular_empty EXCEPT ![w] = (regular_queue = <<>>)]
    /\ Goto(w, "check_count")
    /\ UNCHANGED <<world_vars, shared_vars, local_urls_to_process,
                   retry_queue, current_url, current_depth, important_empty,
                   body, unvisited_links, main_pc, result, enqueued,
                   faults>>

\* the termination predicate an idle worker polls
may_stop(imp_empty, reg_empty, retry_empty, count) ==
    imp_empty /\ reg_empty /\ retry_empty /\ count > 0

\* Stop when the predicate holds, else sleep and start the loop again.
CheckTermination(w) ==
    /\ pc[w] = "check_count"
    /\ Goto(w, IF may_stop(important_empty[w], regular_empty[w],
                           retry_queue[w] = <<>>, pages_count)
               THEN "done" ELSE "loop")
    /\ important_empty' = [important_empty EXCEPT ![w] = FALSE]
    /\ regular_empty' = [regular_empty EXCEPT ![w] = FALSE]
    /\ UNCHANGED <<world_vars, shared_vars, local_urls_to_process,
                   retry_queue, current_url, current_depth, body,
                   unvisited_links, main_pc, result, enqueued, faults>>

too_deep_off_by_one(depth, t) == depth > t.max_depth

\* the depth cut-off after the depth lookup
too_deep(depth, t) == depth >= t.max_depth

\* Pop the last URL of the local buffer, read its depth, drop it when too deep.
Dequeue(w) ==
    /\ pc[w] = "dequeue"
    /\ LET local == local_urls_to_process[w]
           url == local[Len(local)]
           depth == depth_or_zero(depth_map, url)
       IN  /\ local_urls_to_process' = [local_urls_to_process EXCEPT
                 ![w] = SubSeq(local, 1, Len(local) - 1)]
           /\ IF too_deep(depth, task)
              THEN /\ Goto(w, "loop")
                   /\ UNCHANGED <<current_url, current_depth>>
              ELSE /\ Goto(w, "fetch")
                   /\ current_url' = [current_url EXCEPT ![w] = url]
                   /\ current_depth' = [current_depth EXCEPT ![w] = depth]
    /\ UNCHANGED <<world_vars, shared_vars, retry_queue, important_empty,
                   regular_empty, body, unvisited_links, main_pc, result,
                   enqueued, faults>>

\* only every third worker performs the robots check
performs_robots_check(w) == w % RobotsSampling = 0

\* Result<bool>
Ok(b) == [is_ok |-> TRUE, value |-> b]
Err == [is_ok |-> FALSE, value |-> FALSE]

\* worker_robots_manager.is_allowed(&current_url) as the worker's match sees
\* it: the error "URL has no host", or the verdict
is_allowed_call(u) == IF u.host = <<>> THEN Err ELSE Ok(is_allowed(u))

allowed_error_denies(w, u) ==
    IF performs_robots_check(w)
    THEN LET answer == is_allowed_call(u)
         IN  IF answer.is_ok THEN answer.value ELSE FALSE
    ELSE TRUE

\* `allowed` of the worker for its current URL: the answer of the check on
\* every third worker (an error counts as allowed), true on the others
allowed(w, u) ==
    IF performs_robots_check(w)
    THEN LET answer == is_allowed_call(u)
         IN  IF answer.is_ok THEN answer.value ELSE TRUE
    ELSE TRUE

RECURSIVE BagOfSeq(_)
BagOfSeq(s) ==
    IF s = <<>> THEN EmptyBag ELSE SetToBag({Head(s)}) (+) BagOfSeq(Tail(s))

\* CrawledPage (timestamp, content type and body text left out)
CrawledPage(u, size, status) ==
    [url |-> u, size |-> size, status_code |-> status]

\* The robots check answers "disallowed": the URL is skipped.
RobotsSkip(w) ==
    /\ pc[w] = "fetch"
    /\ ~allowed(w, current_url[w])
    /\ Goto(w, "loop")
    /\ ClearCurrent(w)
    /\ UNCHANGED <<world_vars, shared_vars, local_urls_to_process,
                   retry_queue, important_empty, regular_empty, main_pc,
                   result, enqueued, faults>>

error_page_with_status(u) == CrawledPage(u, 0, Some(200))

\* the CrawledPage built when the request itself fails
error_page(u) == CrawledPage(u, 0, None)

\* client.get(..).send() fails: a zero-size page is recorded and counted.
FetchNetworkError(w) ==
    /\ pc[w] = "fetch"
    /\ allowed(w, current_url[w])
    /\ pages_count' = pages_count + 1
    /\ page_records' = page_records (+) SetToBag({error_page(current_url[w])})
    /\ Goto(w, "loop")
    /\ ClearCurrent(w)
    /\ UNCHANGED <<world_vars, important_queue, regular_queue, visited,
                   depth_map, total_size, local_urls_to_process, retry_queue,
                   important_empty, regular_empty, main_pc, result, enqueued,
                   faults>>

push_back_twice(q, url) == Append(Append(q, url), url)

\* VecDeque::push_back
push_back(q, url) == Append(q, url)

\* HTTP 429: after the back-off the URL is put back into a queue.
FetchRateLimited(w) ==
    /\ pc[w] = "fetch"
    /\ allowed(w, current_url[w])
    /\ faults < fault_budget
    /\ faults' = faults + 1
    /\ IF is_important_requeue(current_url[w])
       THEN /\ important_queue' = push_back(important_queue, current_url[w])
            /\ UNCHANGED regular_queue
       ELSE /\ regular_queue' = push_back(regular_queue, current_url[w])
            /\ UNCHANGED important_queue
    /\ Goto(w, "loop")
    /\ ClearCurrent(w)
    /\ UNCHANGED <<world_vars, visited, depth_map, pages_count, total_size,
                   page_records, local_urls_to_process, retry_queue,
                   important_empty, regular_empty, main_pc, result, enqueued>>

\* the Content-Type headers of the responses: none, HTML with a charset,
\* XHTML, PDF, PNG
ContentTypes ==
    {None,
     Some(<<"t", "e", "x", "t", "/", "h", "t", "m", "l", ";", " ", "c", "h", "a", "r", "s", "e", "t", "=", "u", "t", "f", "-", "8">>),
     Some(<<"a", "p", "p", "l", "i", "c", "a", "t", "i", "o", "n", "/", "x", "h", "t", "m", "l", "+", "x", "m", "l">>),
     Some(<<"a", "p", "p", "l", "i", "c", "a", "t", "i", "o", "n", "/", "p", "d", "f">>),
     Some(<<"i", "m", "a", "g", "e", "/", "p", "n", "g">>)}

\* if let Some(ct) = &content_type { if !ct.contains(..) && !ct.contains(..) }
skips_content_type(content_type) ==
    /\ content_type # None
    /\ ~contains(content_type[1], <<"t", "e", "x", "t", "/", "h", "t", "m", "l">>)
    /\ ~contains(content_type[1], <<"a", "p", "p", "l", "i", "c", "a", "t", "i", "o", "n", "/", "x", "h", "t", "m", "l", "+", "x", "m", "l">>)

FetchNonHtmlCounted(w) ==
    /\ pc[w] = "fetch"
    /\ allowed(w, current_url[w])
    /\ \E content_type \in ContentTypes : skips_content_type(content_type)
    /\ pages_count' = pages_count + 1
    /\ Goto(w, "loop")
    /\ ClearCurrent(w)
    /\ UNCHANGED <<world_vars, important_queue, regular_queue, visited,
                   depth_map, total_size, page_records,
                   local_urls_to_process, retry_queue, important_empty,
                   regular_empty, main_pc, result, enqueued, faults>>

\* A content type that is neither text/html nor application/xhtml+xml.
FetchNonHtml(w) ==
    /\ pc[w] = "fetch"
    /\ allowed(w, current_url[w])
    /\ \E content_type \in ContentTypes : skips_content_type(content_type)
    /\ Goto(w, "loop")
    /\ ClearCurrent(w)
    /\ UNCHANGED <<world_vars, shared_vars, local_urls_to_process,
                   retry_queue, important_empty, regular_empty, main_pc,
                   result, enqueued, faults>>

\* response.text() fails: the URL goes to the worker's retry queue.
FetchBodyError(w) ==
    /\ pc[w] = "fetch"
    /\ allowed(w, current_url[w])
    /\ faults < fault_budget
    /\ faults' = faults + 1
    /\ retry_queue' = [retry_queue EXCEPT
                         ![w] = Append(@, [url |-> current_url[w],
                                           retries |-> 1])]
    /\ Goto(w, "loop")
    /\ ClearCurrent(w)
    /\ UNCHANGED <<world_vars, shared_vars, local_urls_to_process,
                   important_empty, regular_empty, main_pc, result, enqueued>>

\* needs_js_processing && use_headless_chrome, with a shared browser at hand
escalates(u, depth, headless, browser) ==
    /\ JsDependent(u)
    /\ is_render_candidate(u) \/ depth <= RenderDepth
    /\ headless
    /\ browser

\* The HTML body arrived: go on to the renderer or to the page record.
FetchOk(w) ==
    /\ pc[w] = "fetch"
    /\ allowed(w, current_url[w])
    /\ body' = [body EXCEPT ![w] = "static"]
    /\ Goto(w, IF escalates(current_url[w], current_depth[w],
                            use_headless_chrome, shared_browser)
               THEN "render" ELSE "record")
    /\ UNCHANGED <<world_vars, shared_vars, local_urls_to_process,
                   retry_queue, current_url, current_depth, important_empty,
                   regular_empty, unvisited_links, main_pc, result, enqueued,
                   faults>>

\* base_domain: the host of the target URL
base_domain == task.target_url.host

RECURSIVE register_rendered(_, _, _, _)
\* the loop over js_links under the visited lock: a link that is not yet
\* visited and is to be followed is inserted at once, so a later copy of it
\* in the same list is skipped
register_rendered(links, vis, domain, follow) ==
    IF links = <<>> THEN <<>>
    ELSE LET normalized_link == set_fragment_none(Head(links))
         IN  IF normalized_link \in vis
             THEN register_rendered(Tail(links), vis, domain, follow)
             ELSE IF is_same_domain(normalized_link, domain, follow)
                  THEN <<normalized_link>>
                       \o register_rendered(Tail(links),
                                            vis \cup {normalized_link},
                                            domain, follow)
                  ELSE register_rendered(Tail(links), vis, domain, follow)

RECURSIVE SelectSeq2(_, _, _)
\* the elements u of s with important(u) = want, in order
SelectSeq2(s, want, rendered) ==
    IF s = <<>> THEN <<>>
    ELSE LET imp == IF rendered THEN has_important_patterns_rendered(Head(s))
                    ELSE has_important_patterns_static(Head(s))
         IN  IF imp = want
             THEN <<Head(s)>> \o SelectSeq2(Tail(s), want, rendered)
             ELSE SelectSeq2(Tail(s), want, rendered)

\* the depth recorded for the children of a page of depth d
child_depth(d) == d + 1

\* links of the renderer are registered only above the last level
rendered_links_wanted(depth, t) == depth < t.max_depth - 1

content_always_rendered(content_ok) == "rendered"

\* `content` after HeadlessBrowser::extract_content: the rendered document,
\* or on an error still the HTML of the response
content_after_render(content_ok) == IF content_ok THEN "rendered" ELSE "static"

\* The renderer ran, its two calls ending as given; when it gave links, they
\* are registered and enqueued under all four locks at once.
RenderWith(w, content_ok, links_ok) ==
    /\ pc[w] = "render"
    /\ body' = [body EXCEPT ![w] = content_after_render(content_ok)]
    /\ LET fresh ==
             IF links_ok /\ rendered_links_wanted(current_depth[w], task)
             THEN register_rendered(RenderedLinks(current_url[w]),
                                    visited, base_domain,
                                    task.follow_subdomains)
             ELSE <<>>
       IN  /\ visited' = visited \cup SeqToSet(fresh)
           /\ depth_map' = InsertAll(depth_map, SeqToSet(fresh),
                                     child_depth(current_depth[w]))
           /\ important_queue' =
                  important_queue \o SelectSeq2(fresh, TRUE, TRUE)
           /\ regular_queue' =
                  regular_queue \o SelectSeq2(fresh, FALSE, TRUE)
           /\ enqueued' = enqueued (+) BagOfSeq(fresh)
    /\ Goto(w, "record")
    /\ UNCHANGED <<world_vars, pages_count, total_size, page_records,
                   local_urls_to_process, retry_queue, current_url,
                   current_depth, important_empty, regular_empty,
                   unvisited_links, main_pc, result, faults>>

\* The renderer ran: each of its two calls succeeds or fails.
Render(w) ==
    \E content_ok \in BOOLEAN, links_ok \in BOOLEAN :
       RenderWith(w, content_ok, links_ok)

RECURSIVE MapStrip(_)
MapStrip(s) ==
    IF s = <<>> THEN <<>>
    ELSE <<set_fragment_none(Head(s))>> \o MapStrip(Tail(s))

\* Crawler::extract_links_from_html: every href, joined to the base URL,
\* without its fragment
extract_links_from_html(u, content) ==
    MapStrip(IF content = "rendered" THEN RenderedLinks(u)
             ELSE StaticHrefs(u))

RECURSIVE links_to_follow(_, _, _)
\* new_links: the normalized links that is_same_domain accepts
links_to_follow(links, domain, follow) ==
    IF links = <<>> THEN <<>>
    ELSE LET normalized_link == set_fragment_none(Head(links))
         IN  IF is_same_domain(normalized_link, domain, follow)
             THEN <<normalized_link>>
                  \o links_to_follow(Tail(links), domain, follow)
             ELSE links_to_follow(Tail(links), domain, follow)

\* The page record and the counters; then the links of the body are
\* extracted and filtered by domain (no lock held).
Record(w) ==
    /\ pc[w] = "record"
    /\ LET size == BodyLen(current_url[w], body[w])
           new_links == links_to_follow(
                            extract_links_from_html(current_url[w], body[w]),
                            base_domain, task.follow_subdomains)
       IN  /\ pages_count' = pages_count + 1
           /\ total_size' = total_size + size
           /\ page_records' = page_records
                  (+) SetToBag({CrawledPage(current_url[w], size, Some(200))})
           /\ IF new_links = <<>>
              THEN /\ Goto(w, "loop")
                   /\ ClearCurrent(w)
              ELSE /\ Goto(w, "filter_visited")
                   /\ unvisited_links' = [unvisited_links EXCEPT
                                            ![w] = new_links]
                   /\ UNCHANGED <<current_url, current_depth, body>>
    /\ UNCHANGED <<world_vars, important_queue, regular_queue, visited,
                   depth_map, local_urls_to_process, retry_queue,
                   important_empty, regular_empty, main_pc, result, enqueued,
                   faults>>

\* unvisited_links of step 1
not_yet_visited(links, vis) ==
    FilterSeq(links, SeqToSet(links) \ vis)

\* Step 1: under the visited lock, keep the links not yet visited.
FilterVisited(w) ==
    /\ pc[w] = "filter_visited"
    /\ LET unvisited == not_yet_visited(unvisited_links[w], visited)
       IN  IF unvisited = <<>>
           THEN /\ Goto(w, "loop")
                /\ ClearCurrent(w)
           ELSE /\ Goto(w, "insert_visited")
                /\ unvisited_links' = [unvisited_links EXCEPT
                                         ![w] = unvisited]
                /\ UNCHANGED <<current_url, current_depth, body>>
    /\ UNCHANGED <<world_vars, shared_vars, local_urls_to_process,
                   retry_queue, important_empty, regular_empty, main_pc,
                   result, enqueued, faults>>

\* Step 2: under the visited and the depth-map lock, insert them all.
InsertVisited(w) ==
    /\ pc[w] = "insert_visited"
    /\ visited' = visited \cup SeqToSet(unvisited_links[w])
    /\ depth_map' = InsertAll(depth_map, SeqToSet(unvisited_links[w]),
                              child_depth(current_depth[w]))
    /\ Goto(w, IF SelectSeq2(unvisited_links[w], TRUE, FALSE) # <<>>
               THEN "enqueue_important" ELSE "enqueue_regular")
    /\ UNCHANGED <<world_vars, important_queue, regular_queue, pages_count,
                   total_size, page_records, local_urls_to_process,
                   retry_queue, current_url, current_depth, important_empty,
                   regular_empty, body, unvisited_links, main_pc, result,
                   enqueued, faults>>

\* Step 4a: extend the important queue by the important links.
EnqueueImportant(w) ==
    /\ pc[w] = "enqueue_important"
    /\ LET important_links == SelectSeq2(unvisited_links[w], TRUE, FALSE)
           regular_links == SelectSeq2(unvisited_links[w], FALSE, FALSE)
       IN  /\ important_queue' = important_queue \o important_links
           /\ enqueued' = enqueued (+) BagOfSeq(important_links)
           /\ IF regular_links = <<>>
              THEN /\ Goto(w, "loop")
                   /\ ClearCurrent(w)
              ELSE /\ Goto(w, "enqueue_regular")
                   /\ UNCHANGED <<current_url, current_depth, body,
                                  unvisited_links>>
    /\ UNCHANGED <<world_vars, regular_queue, visited, depth_map, pages_count,
                   total_size, page_records, local_urls_to_process,
                   retry_queue, important_empty, regular_empty, main_pc,
                   result, faults>>

\* Step 4b: extend the regular queue by the regular links.
EnqueueRegular(w) ==
    /\ pc[w] = "enqueue_regular"
    /\ LET regular_links == SelectSeq2(unvisited_links[w], FALSE, FALSE)
       IN  /\ regular_queue' = regular_queue \o regular_links
           /\ enqueued' = enqueued (+) BagOfSeq(regular_links)
    /\ Goto(w, "loop")
    /\ ClearCurrent(w)
    /\ UNCHANGED <<world_vars, important_queue, visited, depth_map,
                   pages_count, total_size, page_records,
                   local_urls_to_process, retry_queue, important_empty,
                   regular_empty, main_pc, result, faults>>

\* ------------------------------------------------------------ the caller
\* HeadlessBrowser::start: nothing is done for a renderer that is running;
\* else the browser process is launched, and on success the renderer runs
start(state, launch_ok) ==
    IF state = "running" THEN state
    ELSE IF launch_ok THEN "running" ELSE state

\* HeadlessBrowser::stop: a renderer that holds a browser lets go of it and
\* is no longer running; one that holds none is left as it is
stop(state) == IF state = "running" THEN "stopped" ELSE state

\* HeadlessBrowser::stop_browser on the shared handle: the renderer is
\* stopped, as HeadlessBrowser::stop does
stop_browser(bs, handle) == [bs EXCEPT ![handle] = stop(@)]

\* All workers are joined; the counters are copied into the result, which is
\* completed and returned.
Finalize ==
    /\ main_pc = "joining"
    /\ \A w \in Workers : pc[w] = "done"
    /\ result' = complete([result EXCEPT !.pages_count = pages_count,
                                         !.total_size = total_size],
                           now)
    /\ browsers' = IF headless_browser = None THEN browsers
                   ELSE stop_browser(browsers, headless_browser[1])
    /\ headless_browser' = None
    /\ main_pc' = "returned"
    /\ UNCHANGED <<task, use_headless_chrome, shared_browser, sitemap_urls,
                   fault_budget, robots_txt_vars, checker_vars, classifier_vars, lock_vars, net_vars, sitemap_vars, seed_text,
                   crawl_no, crawler_manager, shared_vars, worker_vars,
                   enqueued, faults>>

WorkerStep(w) ==
    \/ LoopHead(w)
    \/ RefillImportant(w)
    \/ RefillRegular(w)
    \/ CheckImportantEmpty(w)
    \/ CheckRegularEmpty(w)
    \/ CheckTermination(w)
    \/ Dequeue(w)
    \/ RobotsSkip(w)
    \/ FetchNetworkError(w)
    \/ FetchRateLimited(w)
    \/ FetchNonHtml(w)
    \/ FetchBodyError(w)
    \/ FetchOk(w)
    \/ Render(w)
    \/ Record(w)
    \/ FilterVisited(w)
    \/ InsertVisited(w)
    \/ EnqueueImportant(w)
    \/ EnqueueRegular(w)

Next ==
    \/ \E w \in Workers : WorkerStep(w)
    \/ Finalize

Spec == Init /\ [][Next]_vars

\* The tokio runtime runs every spawned worker again and again, and the caller
\* resumes once its joins complete.
Fairness ==
    /\ \A w \in Workers : WF_vars(WorkerStep(w))
    /\ WF_vars(Finalize)

FairSpec == Init /\ [][Next]_vars /\ Fairness

\* ------------------------------------------- the end-to-end scenario
\* A crawl of the home page (three same-domain and two cross-domain links)
\* with max_depth = 1 and max_links = 5, no sitemap, robots.txt allowing every
\* page of the site, and every fetch answered with HTML.
EndToEndTasks ==
    [target_url : {HomeUrl},
     max_depth : {1},
     max_links : {Some(5)},
     follow_subdomains : BOOLEAN]

InitEndToEnd ==
    /\ task \in EndToEndTasks
    /\ use_headless_chrome \in BOOLEAN
    /\ shared_browser = use_headless_chrome
    /\ sitemap_urls = <<>>
    /\ fault_budget = MaxFaults
    /\ Seeded
    /\ ComponentsIdle

WorkerStepEndToEnd(w) ==
    \/ LoopHead(w)
    \/ RefillImportant(w)
    \/ RefillRegular(w)
    \/ CheckImportantEmpty(w)
    \/ CheckRegularEmpty(w)
    \/ CheckTermination(w)
    \/ Dequeue(w)
    \/ FetchOk(w)
    \/ Record(w)
    \/ FilterVisited(w)
    \/ InsertVisited(w)
    \/ EnqueueImportant(w)
    \/ EnqueueRegular(w)

NextEndToEnd ==
    \/ \E w \in Workers : WorkerStepEndToEnd(w)
    \/ Finalize

SpecEndToEnd ==
    /\ InitEndToEnd
    /\ [][NextEndToEnd]_vars
    /\ \A w \in Workers : WF_vars(WorkerStepEndToEnd(w))
    /\ WF_vars(Finalize)

\* --------------------------------------- robots.txt: parse, then can_fetch
\* the variables of the crawl proper
crawl_vars == <<task, use_headless_chrome, shared_browser, sitemap_urls,
                fault_budget, shared_vars, worker_vars, main_pc, result,
                enqueued, faults>>

\* a crawl that is not running
IdleTask ==
    [target_url |-> SeedUrl, max_depth |-> 0, max_links |-> Some(0),
     follow_subdomains |-> FALSE]

CrawlIdle ==
    /\ task = IdleTask
    /\ use_headless_chrome = FALSE
    /\ shared_browser = FALSE
    /\ sitemap_urls = <<>>
    /\ fault_budget = MaxFaults
    /\ Seeded

\* what the actions of one component leave alone
outside_robots_txt == <<crawl_vars, net_vars, sitemap_vars, lifecycle_vars,
                        checker_vars, classifier_vars, lock_vars>>
outside_sitemap == <<crawl_vars, rt_file, robots_txt, rt_user_agent, rt_path,
                     rt_pc, rt_answer, now, robots_status, lifecycle_vars,
                     checker_vars, classifier_vars, lock_vars>>

InitRobotsTxt ==
    /\ rt_file \in RobotsFiles
    /\ robots_txt = RobotsTxtDefault
    /\ rt_user_agent \in {<<"b", "o", "t">>, <<"B", "O", "T">>}
    /\ rt_path \in {PathABC, PathAX, PathC}
    /\ rt_pc = "file"
    /\ rt_answer = TRUE
    /\ SitemapIdle
    /\ CrawlIdle
    /\ LifecycleAtSpawn
    /\ CheckersIdle
    /\ ClassifierIdle
    /\ LocksIdle

\* robots.parse(&robots_content)
ParseRobots ==
    /\ rt_pc = "file"
    /\ robots_txt' = parse(rt_file)
    /\ rt_pc' = "parsed"
    /\ UNCHANGED <<rt_file, rt_user_agent, rt_path, rt_answer,
                   outside_robots_txt>>

\* robots.can_fetch(&user_agent, url)
CanFetch ==
    /\ rt_pc = "parsed"
    /\ \E order \in Orders(DOMAIN robots_txt.rules) :
          rt_answer' = can_fetch(robots_txt, rt_user_agent, rt_path, order)
    /\ rt_pc' = "answered"
    /\ UNCHANGED <<rt_file, robots_txt, rt_user_agent, rt_path,
                   outside_robots_txt>>

NextRobotsTxt == ParseRobots \/ CanFetch

SpecRobotsTxt == InitRobotsTxt /\ [][NextRobotsTxt]_vars

\* ---------------------------------- sitemaps: RobotsManager::get_sitemap_urls
SiteDomain == HostBase

RECURSIVE push_unvisited(_, _, _)
\* the loop over sub_sitemaps: one not yet visited is marked and pushed
push_unvisited(sub_sitemaps, seen, stack) ==
    IF sub_sitemaps = <<>> THEN [visited_sitemaps |-> seen, stack |-> stack]
    ELSE IF Head(sub_sitemaps) \in seen
         THEN push_unvisited(Tail(sub_sitemaps), seen, stack)
         ELSE push_unvisited(Tail(sub_sitemaps),
                             seen \cup {Head(sub_sitemaps)},
                             Append(stack, Head(sub_sitemaps)))

\* a request the HTTP client sent
Request(kind, target) == [kind |-> kind, target |-> target, at |-> now]

\* the cache entry of the domain is present and not older than cache_validity
sitemap_cache_valid(manager, domain) ==
    /\ domain \in DOMAIN manager.sitemap_cache
    /\ now - manager.sitemap_cache[domain].at <= CacheValidity

\* get_sitemap_urls up to its loop over the start sitemaps: the cache is
\* consulted; on a miss robots.txt is fetched for its Sitemap: lines, and the
\* standard location is taken when there is none.
GetSitemapUrlsCall ==
    /\ sm_pc = "call"
    /\ IF sitemap_cache_valid(robots_manager, SiteDomain)
       THEN /\ sm_result' =
                   Some(robots_manager.sitemap_cache[SiteDomain].urls)
            /\ sm_pc' = "returned"
            /\ UNCHANGED <<http_log, sm_todo, all_urls, visited_sitemaps,
                           sitemap_stack>>
       ELSE LET listed == IF robots_status = "200"
                          THEN sitemap_lines(rt_file) ELSE <<>>
            IN  /\ http_log' = Append(http_log, Request("robots", SiteDomain))
                /\ sm_todo' = IF listed = <<>>
                              THEN <<default_sitemap_url(SiteDomain)>>
                              ELSE listed
                /\ all_urls' = {}
                /\ visited_sitemaps' = {}
                /\ sitemap_stack' = <<>>
                /\ sm_pc' = "for"
                /\ UNCHANGED sm_result
    /\ UNCHANGED <<robots_manager, sm_docs, outside_sitemap>>

\* process_sitemap_non_recursive is entered for the next start sitemap.
ProcessSitemapBegin ==
    /\ sm_pc = "for"
    /\ sm_todo # <<>>
    /\ sitemap_stack' = <<Head(sm_todo)>>
    /\ visited_sitemaps' = visited_sitemaps \cup {Head(sm_todo)}
    /\ sm_todo' = Tail(sm_todo)
    /\ sm_pc' = "while"
    /\ UNCHANGED <<robots_manager, sm_docs, http_log, all_urls, sm_result,
                   outside_sitemap>>

\* One turn of the while loop: pop a sitemap, fetch it, and on success add
\* its page URLs to the result and push its sub-sitemaps not yet visited.
ProcessSitemapStep ==
    /\ sm_pc = "while"
    /\ sitemap_stack # <<>>
    /\ LET sitemap_url == sitemap_stack[Len(sitemap_stack)]
           rest == SubSeq(sitemap_stack, 1, Len(sitemap_stack) - 1)
       IN  /\ http_log' = Append(http_log, Request("sitemap", sitemap_url))
           /\ IF sitemap_url \notin DOMAIN sm_docs
              THEN /\ sitemap_stack' = rest
                   /\ UNCHANGED <<all_urls, visited_sitemaps>>
              ELSE LET found == extract_urls_from_sitemap(
                                    DocumentText(sm_docs[sitemap_url]))
                       pushed == push_unvisited(found.sitemap_urls,
                                                visited_sitemaps, rest)
                   IN  /\ all_urls' = all_urls \cup SeqToSet(found.page_urls)
                       /\ visited_sitemaps' = pushed.visited_sitemaps
                       /\ sitemap_stack' = pushed.stack
    /\ UNCHANGED <<robots_manager, sm_docs, sm_todo, sm_pc, sm_result,
                   outside_sitemap>>

\* The stack is empty: process_sitemap_non_recursive returns.
ProcessSitemapEnd ==
    /\ sm_pc = "while"
    /\ sitemap_stack = <<>>
    /\ sm_pc' = "for"
    /\ UNCHANGED <<robots_manager, sm_docs, http_log, sm_todo, sitemap_stack,
                   visited_sitemaps, all_urls, sm_result, outside_sitemap>>

\* Every start sitemap was processed: the result is cached and returned.
GetSitemapUrlsReturn ==
    /\ sm_pc = "for"
    /\ sm_todo = <<>>
    /\ robots_manager' =
           [robots_manager EXCEPT !.sitemap_cache =
               MapInsert(@, SiteDomain, [urls |-> all_urls, at |-> now])]
    /\ sm_result' = Some(all_urls)
    /\ sm_pc' = "returned"
    /\ UNCHANGED <<sm_docs, http_log, sm_todo, sitemap_stack,
                   visited_sitemaps, all_urls, outside_sitemap>>

\* the entries a sitemap document may hold
SitemapEntries ==
    {[kind |-> "sitemap", loc |-> SitemapA],
     [kind |-> "sitemap", loc |-> SitemapB],
     [kind |-> "url", loc |-> PageUrlP],
     [kind |-> "url", loc |-> PageUrlQ]}

SitemapDocuments ==
    UNION {[1 .. n -> SitemapEntries] : n \in 0 .. MaxEntries}

\* the robots.txt files that list sitemaps
SitemapRobotsFiles ==
    {<<>>, <<SitemapLine(SitemapA)>>,
     <<SitemapLine(SitemapA), SitemapLine(SitemapB)>>}

InitSitemap ==
    /\ sm_docs \in [{SitemapA, SitemapB} -> SitemapDocuments]
    /\ robots_status \in {"200", "404"}
    /\ rt_file \in SitemapRobotsFiles
    /\ robots_manager = NewManager
    /\ now = 0
    /\ http_log = <<>>
    /\ sm_todo = <<>>
    /\ sitemap_stack = <<>>
    /\ visited_sitemaps = {}
    /\ all_urls = {}
    /\ sm_pc = "call"
    /\ sm_result = None
    /\ robots_txt = RobotsTxtDefault
    /\ rt_user_agent = <<>>
    /\ rt_path = <<>>
    /\ rt_pc = "idle"
    /\ rt_answer = TRUE
    /\ CrawlIdle
    /\ LifecycleAtSpawn
    /\ CheckersIdle
    /\ ClassifierIdle
    /\ LocksIdle

NextSitemap ==
    \/ GetSitemapUrlsCall
    \/ ProcessSitemapBegin
    \/ ProcessSitemapStep
    \/ ProcessSitemapEnd
    \/ GetSitemapUrlsReturn

SpecSitemap == InitSitemap /\ [][NextSitemap]_vars

\* -------------------------- robots checks: RobotsManager::is_allowed
\* what the is_allowed calls leave alone
outside_classifier == <<crawl_vars, robots_txt_vars, checker_vars, net_vars,
                        sitemap_vars, lifecycle_vars, lock_vars>>
outside_locks == <<crawl_vars, robots_txt_vars, checker_vars, classifier_vars,
                   net_vars, sitemap_vars, lifecycle_vars>>
outside_checkers == <<crawl_vars, robots_txt_vars, robots_status, sitemap_vars,
                      lifecycle_vars, classifier_vars, lock_vars>>

\* the user agent Crawler::new gives its manager
CrawlerUserAgent == <<"C", "c">>

RECURSIVE path_text(_)
\* the text of a path: a slash in front of every segment
path_text(segments) ==
    IF segments = <<>> THEN <<>>
    ELSE <<"/", Head(segments)>> \o path_text(Tail(segments))

\* url.path(): "/" for the empty path
url_path(u) == IF u.path = <<>> THEN <<"/">> ELSE path_text(u.path)

\* a robots.txt request of worker w's manager
RequestBy(kind, target, w) ==
    [kind |-> kind, target |-> target, at |-> now, by |-> w]

\* an entry of allowed_urls_cache
UrlCacheEntry(u, allowed_flag) ==
    [url |-> u, allowed |-> allowed_flag, at |-> now]

\* cache_guard.iter().find(..): the first entry for the URL that is at most
\* 60 seconds old
url_cache_hit(cache, u) ==
    LET hits == {i \in 1 .. Len(cache) :
                    cache[i].url = u /\ now - cache[i].at <= UrlCacheTtl}
    IN  IF hits = {} THEN None
        ELSE Some(cache[CHOOSE i \in hits : \A j \in hits : i <= j].allowed)

\* the pruning after a miss: above 1000 entries the oldest fifth is removed
pruned(cache) ==
    IF Len(cache) > UrlCacheCapacity
    THEN SubSeq(cache, (Len(cache) \div PruneDivisor) + 1, Len(cache))
    ELSE cache

\* get_robots_parser: no entry for the domain, or one older than
\* cache_validity
needs_refresh(manager, domain) ==
    \/ domain \notin DOMAIN manager.robots_cache
    \/ now - manager.robots_cache[domain].at > CacheValidity

\* the parser get_robots_parser builds from the answer to its request: the
\* parsed file, the parsed empty text when the body cannot be read, and the
\* default parser for a status that is no success and for a failed request
fetched_robots(status, file) ==
    CASE status = "200"        -> parse(file)
      [] status = "unreadable" -> parse(<<>>)
      [] OTHER                 -> RobotsTxtDefault

\* is_allowed up to its return or to the request for robots.txt: the shared
\* per-URL cache, the negative cache, then the manager's own robots cache.
IsAllowedCall(w, u) ==
    /\ is_allowed_pc[w] = "idle"
    /\ LET hit == url_cache_hit(allowed_urls_cache, u)
           cache == pruned(allowed_urls_cache)
           domain == u.host
           manager == worker_robots_manager[w]
       IN  IF hit # None
           THEN /\ is_allowed_result' = [is_allowed_result EXCEPT ![w] = hit]
                /\ UNCHANGED <<allowed_urls_cache, http_log, is_allowed_pc,
                               is_allowed_url>>
           ELSE IF domain \in manager.negative_cache
           THEN /\ allowed_urls_cache' =
                       Append(cache, UrlCacheEntry(u, TRUE))
                /\ is_allowed_result' =
                       [is_allowed_result EXCEPT ![w] = Some(TRUE)]
                /\ UNCHANGED <<http_log, is_allowed_pc, is_allowed_url>>
           ELSE IF needs_refresh(manager, domain)
           THEN /\ http_log' =
                       Append(http_log, RequestBy("robots", domain, w))
                /\ allowed_urls_cache' = cache
                /\ is_allowed_pc' = [is_allowed_pc EXCEPT ![w] = "fetching"]
                /\ is_allowed_url' = [is_allowed_url EXCEPT ![w] = u]
                /\ UNCHANGED is_allowed_result
           ELSE LET robots == manager.robots_cache[domain].robots
                IN  \E order \in Orders(DOMAIN robots.rules) :
                       LET verdict == can_fetch(robots, CrawlerUserAgent,
                                                url_path(u), order)
                       IN  /\ allowed_urls_cache' =
                                  Append(cache, UrlCacheEntry(u, verdict))
                           /\ is_allowed_result' =
                                  [is_allowed_result EXCEPT
                                      ![w] = Some(verdict)]
                           /\ UNCHANGED <<http_log, is_allowed_pc,
                                          is_allowed_url>>
    /\ UNCHANGED <<worker_robots_manager, now, outside_checkers>>

\* The answer to the robots.txt request is in: get_robots_parser stores the
\* parser with the time in the manager's robots_cache and returns it (it has
\* no return of an error, so the arm of is_allowed that fills negative_cache
\* is never taken); is_allowed asks the parser and caches the verdict.
IsAllowedFetched(w) ==
    /\ is_allowed_pc[w] = "fetching"
    /\ LET u == is_allowed_url[w]
           robots == fetched_robots(robots_status, rt_file)
       IN  /\ worker_robots_manager' =
                  [worker_robots_manager EXCEPT
                      ![w].robots_cache =
                          MapInsert(@, u.host,
                                    [robots |-> robots, at |-> now])]
           /\ \E order \in Orders(DOMAIN robots.rules) :
                  LET verdict == can_fetch(robots, CrawlerUserAgent,
                                           url_path(u), order)
                  IN  /\ allowed_urls_cache' =
                             Append(allowed_urls_cache,
                                    UrlCacheEntry(u, verdict))
                      /\ is_allowed_result' =
                             [is_allowed_result EXCEPT ![w] = Some(verdict)]
    /\ is_allowed_pc' = [is_allowed_pc EXCEPT ![w] = "idle"]
    /\ is_allowed_url' = [is_allowed_url EXCEPT ![w] = NoUrl]
    /\ UNCHANGED <<http_log, now, outside_checkers>>

\* Time passes.
Elapse ==
    /\ \E t \in LaterInstants : now < t /\ now' = t
    /\ UNCHANGED <<http_log, checker_vars, outside_checkers>>

\* the robots.txt of the site: every crawler is kept out of /b
SiteRobotsFile == <<UserAgentLine(Star), DisallowLine(<<"/", "b">>)>>

\* the URLs the workers have to check
CheckedUrls == {PageB, PageM}

\* The workers of a crawl are spawned with their managers; the site answers
\* the robots.txt request with the file, with an unreadable body, with 404,
\* or not at all.
InitCheckers ==
    /\ robots_status \in {"200", "unreadable", "404", "error"}
    /\ rt_file = SiteRobotsFile
    /\ robots_txt = RobotsTxtDefault
    /\ rt_user_agent = <<>>
    /\ rt_path = <<>>
    /\ rt_pc = "idle"
    /\ rt_answer = TRUE
    /\ now = 0
    /\ http_log = <<>>
    /\ sm_docs = EmptyMap
    /\ robots_manager = NewManager
    /\ sm_todo = <<>>
    /\ sitemap_stack = <<>>
    /\ visited_sitemaps = {}
    /\ all_urls = {}
    /\ sm_pc = "idle"
    /\ sm_result = None
    /\ CrawlIdle
    /\ LifecycleAtSpawn
    /\ CheckersIdle
    /\ ClassifierIdle
    /\ LocksIdle

NextCheckers ==
    \/ \E w \in CheckingWorkers : \E u \in CheckedUrls : IsAllowedCall(w, u)
    \/ \E w \in CheckingWorkers : IsAllowedFetched(w)
    \/ Elapse

SpecCheckers == InitCheckers /\ [][NextCheckers]_vars

\* ------------------------------------- crawl_with_streaming from its entry
\* HeadlessBrowser::start on a new HeadlessBrowser: the browser process is
\* launched (true) or every launch attempt fails (false)
StartOutcomes == BOOLEAN

\* the renderers after HeadlessBrowser::new() was started with success
started(bs) == Append(bs, start("new", TRUE))

\* the handle held in self.headless_browser is replaced or cleared without a
\* call of stop: the last reference to that HeadlessBrowser is dropped
dropped(bs, handle) ==
    IF handle = None THEN bs
    ELSE [bs EXCEPT ![handle[1]] = IF @ = "running" THEN "dropped" ELSE @]

\* Entry of crawl_with_streaming: the result is created and, with
\* use_headless_chrome, a renderer is started and kept in
\* self.headless_browser; a failed start switches rendering off.
CrawlBegin ==
    /\ main_pc \in {"idle", "returned", "failed"}
    /\ crawl_no < MaxCrawls
    /\ crawl_no' = crawl_no + 1
    /\ result' = NewResult(now)
    /\ IF use_headless_chrome
       THEN \E ok \in StartOutcomes :
               IF ok
               THEN /\ browsers' = started(dropped(browsers,
                                                   headless_browser))
                    /\ headless_browser' = Some(Len(browsers) + 1)
                    /\ UNCHANGED use_headless_chrome
               ELSE /\ use_headless_chrome' = FALSE
                    /\ UNCHANGED <<browsers, headless_browser>>
       ELSE UNCHANGED <<use_headless_chrome, browsers, headless_browser>>
    /\ main_pc' = "validate"
    /\ UNCHANGED <<task, shared_browser, sitemap_urls, fault_budget,
                   shared_vars, worker_vars, enqueued, faults,
                   robots_txt_vars, checker_vars, classifier_vars, lock_vars, net_vars,
                   sitemap_vars, seed_text, crawler_manager>>

\* The seed is parsed and must have a host; else crawl returns the error.
ValidateSeed ==
    /\ main_pc = "validate"
    /\ LET parsed == parse_url(seed_text)
       IN  IF parsed.ok /\ host_str(parsed.url) # None
           THEN /\ task' = [task EXCEPT !.target_url = parsed.url]
                /\ main_pc' = "sitemaps"
                /\ robots_manager' = crawler_manager
                /\ sm_pc' = "call"
           ELSE /\ main_pc' = "failed"
                /\ UNCHANGED <<task, robots_manager, sm_pc>>
    /\ UNCHANGED <<use_headless_chrome, shared_browser, sitemap_urls,
                   fault_budget, shared_vars, worker_vars, result, enqueued,
                   faults,
                   robots_txt_vars, checker_vars, classifier_vars, lock_vars, net_vars, sm_docs, sm_todo, sitemap_stack,
                   visited_sitemaps, all_urls, sm_result, lifecycle_vars>>

\* get_sitemap_urls returned: the frontier, the visited set, the depth map
\* and the counters of this crawl are created and seeded.
SeedFrontier ==
    /\ main_pc = "sitemaps"
    /\ sm_pc = "returned"
    /\ \E order \in Orders(sm_result[1]) :
          /\ sitemap_urls' = parse_all(order)
          /\ important_queue' =
                 initial_urls_of(task.target_url, parse_all(order))
    /\ regular_queue' = <<>>
    /\ visited' = {set_fragment_none(task.target_url)}
    /\ depth_map' = [u \in {set_fragment_none(task.target_url)} |-> 0]
    /\ pages_count' = 0
    /\ total_size' = 0
    /\ page_records' = EmptyBag
    /\ enqueued' = EmptyBag
    /\ sm_pc' = "idle"
    /\ main_pc' = "shared_browser"
    /\ UNCHANGED <<task, use_headless_chrome, shared_browser, fault_budget,
                   worker_vars, result, faults, robots_txt_vars, checker_vars, classifier_vars, lock_vars, net_vars, sm_docs,
                   robots_manager, sm_todo, sitemap_stack, visited_sitemaps,
                   all_urls, sm_result, lifecycle_vars>>

\* The shared renderer of the workers is started, and the workers are spawned.
SpawnWorkers ==
    /\ main_pc = "shared_browser"
    /\ IF use_headless_chrome
       THEN \E ok \in StartOutcomes :
               IF ok
               THEN /\ browsers' = started(dropped(browsers,
                                                   headless_browser))
                    /\ headless_browser' = Some(Len(browsers) + 1)
                    /\ shared_browser' = TRUE
               ELSE /\ shared_browser' = FALSE
                    /\ UNCHANGED <<browsers, headless_browser>>
       ELSE /\ shared_browser' = FALSE
            /\ UNCHANGED <<browsers, headless_browser>>
    /\ pc' = [w \in Workers |-> "loop"]
    /\ local_urls_to_process' = [w \in Workers |-> <<>>]
    /\ retry_queue' = [w \in Workers |-> <<>>]
    /\ current_url' = [w \in Workers |-> NoUrl]
    /\ current_depth' = [w \in Workers |-> 0]
    /\ important_empty' = [w \in Workers |-> FALSE]
    /\ regular_empty' = [w \in Workers |-> FALSE]
    /\ body' = [w \in Workers |-> "none"]
    /\ unvisited_links' = [w \in Workers |-> <<>>]
    /\ main_pc' = "joining"
    /\ UNCHANGED <<task, use_headless_chrome, sitemap_urls, fault_budget,
                   shared_vars, result, enqueued, faults, robots_txt_vars, checker_vars, classifier_vars, lock_vars,
                   net_vars,
                   sitemap_vars, seed_text, crawl_no, crawler_manager>>

\* Time passes between two crawls.
Tick ==
    /\ main_pc \in {"returned", "failed"}
    /\ now = 0
    /\ now' \in LaterInstants
    /\ UNCHANGED <<crawl_vars, robots_txt_vars, checker_vars, classifier_vars, lock_vars, http_log, robots_status,
                   sitemap_vars, lifecycle_vars>>

\* the seeds handed to crawl: a URL, a URL with a fragment, a text without a
\* scheme, a URL without a host
SeedTexts ==
    {Scheme \o HostBase,
     Scheme \o HostBase \o <<"#", "f">>,
     HostBase,
     <<"m", ":", "x">>}

\* the task of the crawls: the seed is in seed_text
LifecycleTask ==
    [target_url |-> NoUrl, max_depth |-> 1, max_links |-> Some(2),
     follow_subdomains |-> FALSE]

\* the sitemap documents served: A lists B (and a page), B lists a page
LifecycleDocs ==
    [d \in {SitemapA, SitemapB} |->
        IF d = SitemapA
        THEN <<[kind |-> "sitemap", loc |-> SitemapB],
               [kind |-> "url", loc |-> PageUrlP]>>
        ELSE <<[kind |-> "url", loc |-> PageUrlQ]>>]

\* A Crawler as Crawler::new and with_headless_chrome leave it, and crawl not
\* yet called.
InitLifecycle ==
    /\ seed_text \in SeedTexts
    /\ task = LifecycleTask
    /\ use_headless_chrome \in BOOLEAN
    /\ shared_browser = FALSE
    /\ sitemap_urls = <<>>
    /\ fault_budget = MaxFaults
    /\ important_queue = <<>>
    /\ regular_queue = <<>>
    /\ visited = {}
    /\ depth_map = EmptyMap
    /\ pages_count = 0
    /\ total_size = 0
    /\ page_records = EmptyBag
    /\ pc = [w \in Workers |-> "unspawned"]
    /\ local_urls_to_process = [w \in Workers |-> <<>>]
    /\ retry_queue = [w \in Workers |-> <<>>]
    /\ current_url = [w \in Workers |-> NoUrl]
    /\ current_depth = [w \in Workers |-> 0]
    /\ important_empty = [w \in Workers |-> FALSE]
    /\ regular_empty = [w \in Workers |-> FALSE]
    /\ body = [w \in Workers |-> "none"]
    /\ unvisited_links = [w \in Workers |-> <<>>]
    /\ main_pc = "idle"
    /\ result = NewResult(0)
    /\ enqueued = EmptyBag
    /\ faults = 0
    /\ RobotsTxtIdle
    /\ CheckersIdle
    /\ ClassifierIdle
    /\ LocksIdle
    /\ now = 0
    /\ http_log = <<>>
    /\ robots_status \in {"200", "404"}
    /\ sm_docs \in {EmptyMap, LifecycleDocs}
    /\ robots_manager = NewManager
    /\ sm_todo = <<>>
    /\ sitemap_stack = <<>>
    /\ visited_sitemaps = {}
    /\ all_urls = {}
    /\ sm_pc = "idle"
    /\ sm_result = None
    /\ crawl_no = 0
    /\ crawler_manager = NewManager
    /\ headless_browser = None
    /\ browsers = <<>>

\* the worker loop with every fetch answered with HTML
WorkerStepLifecycle(w) ==
    \/ WorkerStepEndToEnd(w)
    \/ RobotsSkip(w)
    \/ Render(w)

NextLifecycle ==
    \/ CrawlBegin
    \/ ValidateSeed
    \/ GetSitemapUrlsCall
    \/ ProcessSitemapBegin
    \/ ProcessSitemapStep
    \/ ProcessSitemapEnd
    \/ GetSitemapUrlsReturn
    \/ SeedFrontier
    \/ SpawnWorkers
    \/ \E w \in Workers : WorkerStepLifecycle(w)
    \/ Finalize
    \/ Tick

SpecLifecycle == InitLifecycle /\ [][NextLifecycle]_vars

\* ------------------------------------------------------ the retry scenario
\* A crawl of the seed page with max_depth = 1, so that the seed is the only
\* URL fetched, in which response.text() may fail MaxRetryFaults times.
RetryTask ==
    [target_url |-> SeedUrl, max_depth |-> 1, max_links |-> Some(5),
     follow_subdomains |-> TRUE]

InitRetry ==
    /\ task = RetryTask
    /\ use_headless_chrome = FALSE
    /\ shared_browser = FALSE
    /\ sitemap_urls = <<>>
    /\ fault_budget = MaxRetryFaults
    /\ Seeded
    /\ ComponentsIdle

WorkerStepRetry(w) ==
    \/ WorkerStepEndToEnd(w)
    \/ FetchBodyError(w)

NextRetry ==
    \/ \E w \in Workers : WorkerStepRetry(w)
    \/ Finalize

SpecRetry == InitRetry /\ [][NextRetry]_vars

\* ------------------------------------------------ the renderer scenario
\* Crawls of the JavaScript-dependent seed page with rendering switched on;
\* the shared renderer has started, or its start failed and the workers have
\* no renderer.
RenderTasks ==
    [target_url : {SeedUrl},
     max_depth : {1, 2},
     max_links : {Some(2)},
     follow_subdomains : BOOLEAN]

InitRender ==
    /\ task \in RenderTasks
    /\ use_headless_chrome = TRUE
    /\ shared_browser \in BOOLEAN
    /\ sitemap_urls = <<>>
    /\ fault_budget = MaxFaults
    /\ Seeded
    /\ ComponentsIdle

WorkerStepRender(w) == WorkerStepEndToEnd(w) \/ Render(w)

NextRender ==
    \/ \E w \in Workers : WorkerStepRender(w)
    \/ Finalize

SpecRender == InitRender /\ [][NextRender]_vars

\* ------------------------------------------------- the budget scenario
\* A crawl of the chain of pages with no page budget given and a depth limit
\* beyond the end of the chain, followed from the moment it is BudgetLead
\* pages or fewer short of the default page budget.
BudgetTask ==
    [target_url |-> ChainUrl(0), max_depth |-> ChainLength + 1,
     max_links |-> None, follow_subdomains |-> FALSE]

\* how many pages before the default page budget the scenario begins
BudgetLead == 2

\* The crawl of the chain after its first n pages were recorded and page n
\* was enqueued, every worker at the head of its loop with nothing in hand
\* (the state the crawl from the seed ChainUrl(0) is in after n pages).
AfterPages(n) ==
    /\ important_queue = IF n % 2 = 0 THEN <<ChainUrl(n)>> ELSE <<>>
    /\ regular_queue = IF n % 2 = 0 THEN <<>> ELSE <<ChainUrl(n)>>
    /\ visited = {ChainUrl(i) : i \in 0 .. n}
    /\ depth_map = [u \in {ChainUrl(i) : i \in 0 .. n} |-> ChainIndex(u)]
    /\ pages_count = n
    /\ total_size = n * BodyLen(ChainUrl(0), "static")
    /\ page_records =
          SetToBag({CrawledPage(ChainUrl(i),
                                BodyLen(ChainUrl(i), "static"), Some(200)) :
                       i \in 0 .. (n - 1)})
    /\ pc = [w \in Workers |-> "loop"]
    /\ local_urls_to_process = [w \in Workers |-> <<>>]
    /\ retry_queue = [w \in Workers |-> <<>>]
    /\ current_url = [w \in Workers |-> NoUrl]
    /\ current_depth = [w \in Workers |-> 0]
    /\ important_empty = [w \in Workers |-> FALSE]
    /\ regular_empty = [w \in Workers |-> FALSE]
    /\ body = [w \in Workers |-> "none"]
    /\ unvisited_links = [w \in Workers |-> <<>>]
    /\ main_pc = "joining"
    /\ result = NewResult(0)
    /\ enqueued = SetToBag({ChainUrl(i) : i \in 1 .. n})
    /\ faults = 0

InitBudget ==
    /\ task = BudgetTask
    /\ use_headless_chrome = FALSE
    /\ shared_browser = FALSE
    /\ sitemap_urls = <<>>
    /\ fault_budget = MaxFaults
    /\ \E n \in (DefaultMaxLinks - BudgetLead) .. (DefaultMaxLinks - 1) :
          AfterPages(n)
    /\ ComponentsIdle

SpecBudget == InitBudget /\ [][NextEndToEnd]_vars

\* ------------------------------------ is_javascript_dependent (robots.rs)
\* An HTML document is a sequence of elements, each with a tag, attributes
\* in source order and a text content; the html text is its serialisation.
\* the elements the documents are built from
\* <div id='root'></div>
DivRoot ==
    [tag |-> <<"d", "i", "v">>,
     attrs |-> <<<<<<"i", "d">>, <<"r", "o", "o", "t">>>>>>,
     inner |-> <<>>]
\* <script src='/static/js/main.chunk.js'></script>
ScriptChunk ==
    [tag |-> <<"s", "c", "r", "i", "p", "t">>,
     attrs |-> <<<<<<"s", "r", "c">>, <<"/", "s", "t", "a", "t", "i", "c", "/", "j", "s", "/", "m", "a", "i", "n", ".", "c", "h", "u", "n", "k", ".", "j", "s">>>>>>,
     inner |-> <<>>]
\* <script src='/React.js'></script>
ScriptReact ==
    [tag |-> <<"s", "c", "r", "i", "p", "t">>,
     attrs |-> <<<<<<"s", "r", "c">>, <<"/", "R", "e", "a", "c", "t", ".", "j", "s">>>>>>,
     inner |-> <<>>]
\* <script src='/a.js'></script>
ScriptPlain ==
    [tag |-> <<"s", "c", "r", "i", "p", "t">>,
     attrs |-> <<<<<<"s", "r", "c">>, <<"/", "a", ".", "j", "s">>>>>>,
     inner |-> <<>>]
\* <script>document.x</script>
ScriptInline ==
    [tag |-> <<"s", "c", "r", "i", "p", "t">>,
     attrs |-> <<>>,
     inner |-> <<"d", "o", "c", "u", "m", "e", "n", "t", ".", "x">>]
\* <noscript>Enable JS</noscript>
NoscriptWarning ==
    [tag |-> <<"n", "o", "s", "c", "r", "i", "p", "t">>,
     attrs |-> <<>>,
     inner |-> <<"E", "n", "a", "b", "l", "e", " ", "J", "S">>]
\* <noscript>ads</noscript>
NoscriptOther ==
    [tag |-> <<"n", "o", "s", "c", "r", "i", "p", "t">>,
     attrs |-> <<>>,
     inner |-> <<"a", "d", "s">>]
\* <article>news</article>
ArticleNews ==
    [tag |-> <<"a", "r", "t", "i", "c", "l", "e">>,
     attrs |-> <<>>,
     inner |-> <<"n", "e", "w", "s">>]
\* <article>the window.</article>
ArticleProse ==
    [tag |-> <<"a", "r", "t", "i", "c", "l", "e">>,
     attrs |-> <<>>,
     inner |-> <<"t", "h", "e", " ", "w", "i", "n", "d", "o", "w", ".">>]
\* <article> </article>
ArticleBlank ==
    [tag |-> <<"a", "r", "t", "i", "c", "l", "e">>,
     attrs |-> <<>>,
     inner |-> <<" ">>]
\* <main></main>
MainEmpty ==
    [tag |-> <<"m", "a", "i", "n">>,
     attrs |-> <<>>,
     inner |-> <<>>]
\* <div id='content'>x</div>
DivContent ==
    [tag |-> <<"d", "i", "v">>,
     attrs |-> <<<<<<"i", "d">>, <<"c", "o", "n", "t", "e", "n", "t">>>>>>,
     inner |-> <<"x">>]
\* <img loading='lazy'>
ImgLazy ==
    [tag |-> <<"i", "m", "g">>,
     attrs |-> <<<<<<"l", "o", "a", "d", "i", "n", "g">>, <<"l", "a", "z", "y">>>>>>,
     inner |-> <<>>]
\* <img data-src='/i'>
ImgDataSrc ==
    [tag |-> <<"i", "m", "g">>,
     attrs |-> <<<<<<"d", "a", "t", "a", "-", "s", "r", "c">>, <<"/", "i">>>>>>,
     inner |-> <<>>]
\* <img loading='eager'>
ImgEager ==
    [tag |-> <<"i", "m", "g">>,
     attrs |-> <<<<<<"l", "o", "a", "d", "i", "n", "g">>, <<"e", "a", "g", "e", "r">>>>>>,
     inner |-> <<>>]
\* <div is='x-a'></div>
DivIs ==
    [tag |-> <<"d", "i", "v">>,
     attrs |-> <<<<<<"i", "s">>, <<"x", "-", "a">>>>>>,
     inner |-> <<>>]
\* <div class='a loading-bar'></div>
DivLoading ==
    [tag |-> <<"d", "i", "v">>,
     attrs |-> <<<<<<"c", "l", "a", "s", "s">>, <<"a", " ", "l", "o", "a", "d", "i", "n", "g", "-", "b", "a", "r">>>>>>,
     inner |-> <<>>]
\* <div class='b vue-app'></div>
DivVueApp ==
    [tag |-> <<"d", "i", "v">>,
     attrs |-> <<<<<<"c", "l", "a", "s", "s">>, <<"b", " ", "v", "u", "e", "-", "a", "p", "p">>>>>>,
     inner |-> <<>>]
\* <div ng-app=''></div>
DivNgApp ==
    [tag |-> <<"d", "i", "v">>,
     attrs |-> <<<<<<"n", "g", "-", "a", "p", "p">>, <<>>>>>>,
     inner |-> <<>>]
\* <meta name='crates-io/config/environment'>
MetaEmber ==
    [tag |-> <<"m", "e", "t", "a">>,
     attrs |-> <<<<<<"n", "a", "m", "e">>, <<"c", "r", "a", "t", "e", "s", "-", "i", "o", "/", "c", "o", "n", "f", "i", "g", "/", "e", "n", "v", "i", "r", "o", "n", "m", "e", "n", "t">>>>>>,
     inner |-> <<>>]
\* <p>hi</p>
ParaText ==
    [tag |-> <<"p">>,
     attrs |-> <<>>,
     inner |-> <<"h", "i">>]

Elements ==
    {DivRoot,
     ScriptChunk,
     ScriptReact,
     ScriptPlain,
     ScriptInline,
     NoscriptWarning,
     NoscriptOther,
     ArticleNews,
     ArticleProse,
     ArticleBlank,
     MainEmpty,
     DivContent,
     ImgLazy,
     ImgDataSrc,
     ImgEager,
     DivIs,
     DivLoading,
     DivVueApp,
     DivNgApp,
     MetaEmber,
     ParaText}

\* the most elements a document has
MaxElements == 2

RECURSIVE SeqsUpTo(_, _)
\* the sequences over S of length at most n
SeqsUpTo(S, n) ==
    IF n = 0 THEN {<<>>}
    ELSE LET shorter == SeqsUpTo(S, n - 1)
         IN  shorter \cup {Append(d, x) : d \in shorter, x \in S}

Documents == SeqsUpTo(Elements, MaxElements) \ {<<>>}

\* elements that have no end tag
VoidTags == {<<"i", "m", "g">>, <<"m", "e", "t", "a">>}

RECURSIVE attrs_text(_)
attrs_text(attrs) ==
    IF attrs = <<>> THEN <<>>
    ELSE <<" ">> \o Head(attrs)[1] \o <<"=", "'">> \o Head(attrs)[2]
         \o <<"'">> \o attrs_text(Tail(attrs))

\* the html text of one element
element_text(el) ==
    <<"<">> \o el.tag \o attrs_text(el.attrs) \o <<">">>
    \o (IF el.tag \in VoidTags THEN <<>>
        ELSE el.inner \o <<"<", "/">> \o el.tag \o <<">">>)

RECURSIVE document_text(_)
\* the html text of a document
document_text(d) ==
    IF d = <<>> THEN <<>>
    ELSE element_text(Head(d)) \o document_text(Tail(d))

\* Html::parse_document: the elements of the body of the text
parse_document(text) ==
    CHOOSE d \in Documents : document_text(d) = text

\* ElementRef::value().attr(name)
attr(el, name) ==
    LET hits == {i \in 1 .. Len(el.attrs) : el.attrs[i][1] = name}
    IN  IF hits = {} THEN None
        ELSE Some(el.attrs[CHOOSE i \in hits : \A j \in hits : i <= j][2])

RECURSIVE split_whitespace(_, _)
\* the words of a class attribute
split_whitespace(text, word) ==
    IF text = <<>> THEN (IF word = <<>> THEN {} ELSE {word})
    ELSE IF Head(text) = " "
         THEN (IF word = <<>> THEN {} ELSE {word})
              \cup split_whitespace(Tail(text), <<>>)
         ELSE split_whitespace(Tail(text), Append(word, Head(text)))

\* selector "tag"
is_tag(el, tag) == el.tag = tag
\* selector "#id"
has_id(el, id) == attr(el, <<"i", "d">>) = Some(id)
\* selector ".class"
has_class(el, class) ==
    /\ attr(el, <<"c", "l", "a", "s", "s">>) # None
    /\ class \in split_whitespace(attr(el, <<"c", "l", "a", "s", "s">>)[1], <<>>)
\* selector "[name]"
has_attr(el, name) == attr(el, name) # None
\* selector "[name='value']"
attr_is(el, name, value) == attr(el, name) = Some(value)
\* selector "[name*='value']"
attr_contains(el, name, value) ==
    attr(el, name) # None /\ contains(attr(el, name)[1], value)

\* document.select(selector): the matching elements in document order
select(document, matching) == FilterSeq(document, matching)

\* for x in ... { if hit { reasons.push(reason); break; } }
RECURSIVE push_and_break(_, _, _)
push_and_break(reasons, hits, reason) ==
    IF hits = <<>> THEN reasons
    ELSE IF Head(hits) THEN Append(reasons, reason)
         ELSE push_and_break(reasons, Tail(hits), reason)

\* if select(..).next().is_some() { reasons.push(reason) }
push_if(reasons, hit, reason) ==
    IF hit THEN Append(reasons, reason) ELSE reasons

\* 1. noscript warnings
noscript_warning(noscript) ==
    LET content == to_lowercase(noscript.inner)
    IN  \/ contains(content, <<"j", "a", "v", "a", "s", "c", "r", "i", "p", "t">>)
        \/ contains(content, <<"e", "n", "a", "b", "l", "e">>)
        \/ contains(content, <<"s", "c", "r", "i", "p", "t">>)

\* 2. the framework root selectors, in the order they are tried
root_selector(el) ==
    << has_id(el, <<"a", "p", "p">>),
       has_id(el, <<"r", "o", "o", "t">>),
       has_attr(el, <<"n", "g", "-", "a", "p", "p">>),
       has_attr(el, <<"d", "a", "t", "a", "-", "r", "e", "a", "c", "t", "r", "o", "o", "t">>),
       has_class(el, <<"v", "u", "e", "-", "a", "p", "p">>),
       has_class(el, <<"e", "m", "b", "e", "r", "-", "v", "i", "e", "w">>),
       has_class(el, <<"e", "m", "b", "e", "r", "-", "a", "p", "p", "l", "i", "c", "a", "t", "i", "o", "n">>) >>

\* 3. script[src] with a framework keyword in the lower-cased src
framework_script(script) ==
    LET src_lower == to_lowercase(attr(script, <<"s", "r", "c">>)[1])
    IN  \/ contains(src_lower, <<"r", "e", "a", "c", "t">>)
        \/ contains(src_lower, <<"v", "u", "e">>)
        \/ contains(src_lower, <<"a", "n", "g", "u", "l", "a", "r">>)
        \/ contains(src_lower, <<"e", "m", "b", "e", "r">>)
        \/ contains(src_lower, <<"w", "e", "b", "p", "a", "c", "k">>)
        \/ contains(src_lower, <<"c", "h", "u", "n", "k">>)

\* 4. meta[name='crates-io/config/environment']
meta_selector(el) ==
    is_tag(el, <<"m", "e", "t", "a">>)
    /\ attr_is(el, <<"n", "a", "m", "e">>, <<"c", "r", "a", "t", "e", "s", "-", "i", "o", "/", "c", "o", "n", "f", "i", "g", "/", "e", "n", "v", "i", "r", "o", "n", "m", "e", "n", "t">>)

\* 5. img[loading='lazy'], img[data-src]
img_selector(el) ==
    /\ is_tag(el, <<"i", "m", "g">>)
    /\ \/ attr_is(el, <<"l", "o", "a", "d", "i", "n", "g">>, <<"l", "a", "z", "y">>)
       \/ has_attr(el, <<"d", "a", "t", "a", "-", "s", "r", "c">>)

\* 6. *[is], *[custom-element]
component_selector(el) ==
    has_attr(el, <<"i", "s">>) \/ has_attr(el, <<"c", "u", "s", "t", "o", "m", "-", "e", "l", "e", "m", "e", "n", "t">>)

\* 7. main, #content, .content, article
content_selector(el) ==
    \/ is_tag(el, <<"m", "a", "i", "n">>)
    \/ has_id(el, <<"c", "o", "n", "t", "e", "n", "t">>)
    \/ has_class(el, <<"c", "o", "n", "t", "e", "n", "t">>)
    \/ is_tag(el, <<"a", "r", "t", "i", "c", "l", "e">>)

\* 8. [class*='loading'], [id*='loading'], [class*='spinner']
loading_selector(el) ==
    \/ attr_contains(el, <<"c", "l", "a", "s", "s">>, <<"l", "o", "a", "d", "i", "n", "g">>)
    \/ attr_contains(el, <<"i", "d">>, <<"l", "o", "a", "d", "i", "n", "g">>)
    \/ attr_contains(el, <<"c", "l", "a", "s", "s">>, <<"s", "p", "i", "n", "n", "e", "r">>)

\* 9. the dynamic content triggers looked for in the html text
dynamic_triggers(text) ==
    \/ contains(text, <<"w", "i", "n", "d", "o", "w", ".">>)
    \/ contains(text, <<"d", "o", "c", "u", "m", "e", "n", "t", ".">>)
    \/ contains(text, <<"a", "d", "d", "E", "v", "e", "n", "t", "L", "i", "s", "t", "e", "n", "e", "r">>)
    \/ contains(text, <<"D", "O", "M", "C", "o", "n", "t", "e", "n", "t", "L", "o", "a", "d", "e", "d">>)

\* the hits of a loop over a selection
hits_of(selection, hit(_)) == [i \in 1 .. Len(selection) |-> hit(selection[i])]

\* the set of the elements of the document that match
matching(document, sel(_)) == {el \in SeqToSet(document) : sel(el)}

\* is_javascript_dependent(html) -> (bool, Vec<&str>)
is_javascript_dependent(text) ==
    LET document == parse_document(text)
        is_noscript(el) == is_tag(el, <<"n", "o", "s", "c", "r", "i", "p", "t">>)
        is_script_src(el) ==
            is_tag(el, <<"s", "c", "r", "i", "p", "t">>) /\ has_attr(el, <<"s", "r", "c">>)
        is_blank(el) == trim(el.inner) = <<>>
        root_hit(i) == \E el \in SeqToSet(document) : root_selector(el)[i]
        r1 == push_and_break(
                  <<>>,
                  hits_of(select(document, matching(document, is_noscript)),
                          noscript_warning),
                  "noscript warning found")
        r2 == push_and_break(
                  r1, [i \in 1 .. 7 |-> root_hit(i)],
                  "JavaScript framework root element found")
        r3 == push_and_break(
                  r2,
                  hits_of(select(document, matching(document, is_script_src)),
                          framework_script),
                  "JavaScript framework script found")
        r4 == push_if(r3, matching(document, meta_selector) # {},
                      "Ember.js application detected")
        r5 == push_if(r4, matching(document, img_selector) # {},
                      "Lazy-loaded images found")
        r6 == push_if(r5, matching(document, component_selector) # {},
                      "Web components found")
        r7 == push_and_break(
                  r6,
                  hits_of(select(document,
                                 matching(document, content_selector)),
                          is_blank),
                  "Empty content container found")
        r8 == push_if(r7, matching(document, loading_selector) # {},
                      "Loading indicator found")
        reasons == push_if(r8, dynamic_triggers(text),
                           "Dynamic content initialization found")
    IN  [dependent |-> Len(reasons) >= 1, reasons |-> reasons]

\* A caller hands a text to is_javascript_dependent.
ClassifyCall ==
    /\ js_pc \in {"idle", "returned"}
    /\ \E d \in Documents : html' = document_text(d)
    /\ js_pc' = "input"
    /\ js_result' = None
    /\ UNCHANGED outside_classifier

\* is_javascript_dependent returns.
ClassifyReturn ==
    /\ js_pc = "input"
    /\ js_result' = Some(is_javascript_dependent(html))
    /\ js_pc' = "returned"
    /\ UNCHANGED <<html, outside_classifier>>

\* No call of is_javascript_dependent was made yet.
InitClassifier ==
    /\ CrawlIdle
    /\ ComponentsIdle

NextClassifier == ClassifyCall \/ ClassifyReturn

SpecClassifier == InitClassifier /\ [][NextClassifier]_vars

\* ---------------------------------------------------- the batch scenario
\* A crawl of the hub and its pages, every fetch answered with HTML.
HubTask ==
    [target_url |-> HubUrl, max_depth |-> 2, max_links |-> None,
     follow_subdomains |-> FALSE]

InitBatch ==
    /\ task = HubTask
    /\ use_headless_chrome = FALSE
    /\ shared_browser = FALSE
    /\ sitemap_urls = <<>>
    /\ fault_budget = MaxFaults
    /\ Seeded
    /\ ComponentsIdle

SpecBatch == InitBatch /\ [][NextEndToEnd]_vars

\* ----------------------------------------------- the rate-limit scenario
\* Crawls of the seed page and its links in which the site answers a request
\* for /docs/a with HTTP 429 at most MaxFaults times, and every other
\* request with HTML.
RateLimitTasks ==
    [target_url : {SeedUrl},
     max_depth : {2},
     max_links : {Some(2), None},
     follow_subdomains : {TRUE}]

InitRateLimit ==
    /\ task \in RateLimitTasks
    /\ use_headless_chrome = FALSE
    /\ shared_browser = FALSE
    /\ sitemap_urls = <<>>
    /\ fault_budget = MaxFaults
    /\ Seeded
    /\ ComponentsIdle

\* the answer 429 to a request for /docs/a
RateLimitedAnswer(w) == current_url[w] = PageA /\ FetchRateLimited(w)

WorkerStepRateLimit(w) ==
    \/ WorkerStepEndToEnd(w)
    \/ RateLimitedAnswer(w)

NextRateLimit ==
    \/ \E w \in Workers : WorkerStepRateLimit(w)
    \/ Finalize

FairnessRateLimit ==
    /\ \A w \in Workers : WF_vars(WorkerStepRateLimit(w))
    /\ WF_vars(Finalize)

FairSpecRateLimit ==
    InitRateLimit /\ [][NextRateLimit]_vars /\ FairnessRateLimit

\* ------------------------------------------- the start-sitemap scenario
\* get_sitemap_urls for a site whose robots.txt lists two start sitemaps: the
\* same one twice, or two of which either may list the other.
StartSitemapFiles ==
    {<<SitemapLine(SitemapA), SitemapLine(SitemapA)>>,
     <<SitemapLine(SitemapA), SitemapLine(SitemapB)>>,
     <<SitemapLine(SitemapB), SitemapLine(SitemapA)>>}

InitStartSitemaps ==
    /\ sm_docs \in [{SitemapA, SitemapB} -> SitemapDocuments]
    /\ robots_status = "200"
    /\ rt_file \in StartSitemapFiles
    /\ robots_manager = NewManager
    /\ now = 0
    /\ http_log = <<>>
    /\ sm_todo = <<>>
    /\ sitemap_stack = <<>>
    /\ visited_sitemaps = {}
    /\ all_urls = {}
    /\ sm_pc = "call"
    /\ sm_result = None
    /\ robots_txt = RobotsTxtDefault
    /\ rt_user_agent = <<>>
    /\ rt_path = <<>>
    /\ rt_pc = "idle"
    /\ rt_answer = TRUE
    /\ CrawlIdle
    /\ LifecycleAtSpawn
    /\ CheckersIdle
    /\ ClassifierIdle
    /\ LocksIdle

SpecStartSitemaps == InitStartSitemaps /\ [][NextSitemap]_vars

\* ---------------------------------------------- the escalation scenario
\* Crawls of the fifth site down to its third level, with rendering switched
\* off, switched on with the shared renderer started, and switched on with
\* no renderer at hand.
EscalationTask ==
    [target_url |-> AppUrl, max_depth |-> 3, max_links |-> None,
     follow_subdomains |-> FALSE]

InitEscalation ==
    /\ task = EscalationTask
    /\ use_headless_chrome \in BOOLEAN
    /\ shared_browser \in {FALSE, use_headless_chrome}
    /\ sitemap_urls = <<>>
    /\ fault_budget = MaxFaults
    /\ Seeded
    /\ ComponentsIdle

SpecEscalation == InitEscalation /\ [][NextRender]_vars

\* ---------------------------------------------- the full-cache scenario
\* The workers of a crawl check /b and /m while the per-URL cache they share
\* holds the verdicts of as many other URLs as its capacity, or one less; the
\* site answers the robots.txt request with its file.
CachedUrl(n) == MkUrl(HostBase, <<"f", ToString(n)>>, "")

FullCache(n) == [i \in 1 .. n |-> UrlCacheEntry(CachedUrl(i), TRUE)]

InitFullCache ==
    /\ robots_status = "200"
    /\ rt_file = SiteRobotsFile
    /\ robots_txt = RobotsTxtDefault
    /\ rt_user_agent = <<>>
    /\ rt_path = <<>>
    /\ rt_pc = "idle"
    /\ rt_answer = TRUE
    /\ now = 0
    /\ http_log = <<>>
    /\ sm_docs = EmptyMap
    /\ robots_manager = NewManager
    /\ sm_todo = <<>>
    /\ sitemap_stack = <<>>
    /\ visited_sitemaps = {}
    /\ all_urls = {}
    /\ sm_pc = "idle"
    /\ sm_result = None
    /\ CrawlIdle
    /\ LifecycleAtSpawn
    /\ worker_robots_manager = [w \in CheckingWorkers |-> NewManager]
    /\ \E n \in {UrlCacheCapacity - 1, UrlCacheCapacity} :
          allowed_urls_cache = FullCache(n)
    /\ is_allowed_pc = [w \in CheckingWorkers |-> "idle"]
    /\ is_allowed_url = [w \in CheckingWorkers |-> NoUrl]
    /\ is_allowed_result = [w \in CheckingWorkers |-> None]
    /\ ClassifierIdle
    /\ LocksIdle

\* Time passes until the entries written so far are older than the TTL.
EntriesExpire == Elapse /\ now' = UrlCacheTtl + 1

NextFullCache ==
    \/ \E w \in CheckingWorkers : \E u \in CheckedUrls : IsAllowedCall(w, u)
    \/ \E w \in CheckingWorkers : IsAllowedFetched(w)
    \/ EntriesExpire

SpecFullCache == InitFullCache /\ [][NextFullCache]_vars

\* ------------------------------------------- the blank-Disallow scenario
\* robots.txt files with a group for Bot whose only directive is a blank
\* Disallow, alone or with a group for * or for bo in front of it, behind it,
\* or both.
BlankGroup(agent) == <<UserAgentLine(agent), DisallowLine(<<>>)>>

OtherGroups ==
    {<<>>} \cup {Group(agent, lines) :
                    agent \in {Star, AgentBo}, lines \in RuleLines \ {<<>>}}

BlankDisallowFiles ==
    {before \o BlankGroup(AgentBot) \o after :
        before \in OtherGroups, after \in OtherGroups}

InitBlankDisallow ==
    /\ rt_file \in BlankDisallowFiles
    /\ robots_txt = RobotsTxtDefault
    /\ rt_user_agent \in {<<"b", "o", "t">>, <<"B", "O", "T">>}
    /\ rt_path \in {PathABC, PathAX, PathC}
    /\ rt_pc = "file"
    /\ rt_answer = TRUE
    /\ SitemapIdle
    /\ CrawlIdle
    /\ LifecycleAtSpawn
    /\ CheckersIdle
    /\ ClassifierIdle
    /\ LocksIdle

SpecBlankDisallow == InitBlankDisallow /\ [][NextRobotsTxt]_vars

\* --------------------------------------------- the robots-check scenario
\* Crawls of the seed page whose sitemap lists /m (which links to /b), /b
\* (which robots.txt disallows) and a URL without host; a request for a URL
\* with a host is answered with HTML or fails, one for the URL without host
\* fails.
SamplingTasks ==
    [target_url : {SeedUrl},
     max_depth : {1, 2},
     max_links : {Some(3), None},
     follow_subdomains : {FALSE}]

InitSampling ==
    /\ task \in SamplingTasks
    /\ use_headless_chrome = FALSE
    /\ shared_browser = FALSE
    /\ sitemap_urls \in {<<PageB, MailUrl>>, <<MailUrl, PageM, PageB>>}
    /\ fault_budget = MaxFaults
    /\ Seeded
    /\ ComponentsIdle

\* the HTML answer of the site
HtmlAnswer(w) == current_url[w].host # <<>> /\ FetchOk(w)

WorkerStepSampling(w) ==
    \/ LoopHead(w)
    \/ RefillImportant(w)
    \/ RefillRegular(w)
    \/ CheckImportantEmpty(w)
    \/ CheckRegularEmpty(w)
    \/ CheckTermination(w)
    \/ Dequeue(w)
    \/ RobotsSkip(w)
    \/ FetchNetworkError(w)
    \/ HtmlAnswer(w)
    \/ Record(w)
    \/ FilterVisited(w)
    \/ InsertVisited(w)
    \/ EnqueueImportant(w)
    \/ EnqueueRegular(w)

NextSampling ==
    \/ \E w \in Workers : WorkerStepSampling(w)
    \/ Finalize

SpecSampling == InitSampling /\ [][NextSampling]_vars

\* ------------------------------------------------- the locking scenario
\* The lock() calls and guard drops of the worker loop, in program order. A
\* std::sync::Mutex is not reentrant, and a guard is dropped at the end of its
\* block (guards of one block in reverse order of declaration), at the end
\* of the statement for a temporary, or by drop().
Lock(m) == [op |-> "lock", mutex |-> m]
Unlock(m) == [op |-> "unlock", mutex |-> m]

\* one Mutex locked, used and released
Alone(m) == <<Lock(m), Unlock(m)>>

\* the refill of the local buffer and, when it stays empty, the termination
\* test
dequeue_path_locks(got_important, got_regular) ==
    Alone("important_queue")
        \o (IF got_important THEN <<>>
            ELSE Alone("regular_queue")
                    \o (IF got_regular THEN <<>>
                        ELSE Alone("important_queue")
                                \o Alone("regular_queue")))

\* the depth lookup for the URL taken from the local buffer
depth_lookup_locks == Alone("depth_map")

\* the URL of an HTTP 429 answer is put back
requeue_locks(important) ==
    IF important THEN Alone("important_queue") ELSE Alone("regular_queue")

rendered_path_locks_queues_first ==
    <<Lock("regular_queue"), Lock("important_queue"), Lock("depth_map"),
      Lock("visited"), Unlock("visited"), Unlock("depth_map"),
      Unlock("important_queue"), Unlock("regular_queue")>>

\* the links of a rendered page: four guards held over the whole loop
rendered_path_locks ==
    <<Lock("visited"), Lock("depth_map"), Lock("important_queue"),
      Lock("regular_queue"), Unlock("regular_queue"),
      Unlock("important_queue"), Unlock("depth_map"), Unlock("visited")>>

\* the links of the parsed HTML: steps 1, 2 and 4
static_path_locks(has_important, has_regular) ==
    Alone("visited")
        \o <<Lock("visited"), Lock("depth_map"), Unlock("depth_map"),
             Unlock("visited")>>
        \o (IF has_important THEN Alone("important_queue") ELSE <<>>)
        \o (IF has_regular THEN Alone("regular_queue") ELSE <<>>)

\* the paths on which a worker takes locks
LockPaths ==
    {dequeue_path_locks(i, r) : i, r \in BOOLEAN}
        \cup {depth_lookup_locks, rendered_path_locks}
        \cup {requeue_locks(i) : i \in BOOLEAN}
        \cup {static_path_locks(i, r) : i, r \in BOOLEAN}

InitLocks ==
    /\ CrawlIdle
    /\ ComponentsIdle

\* Worker w, holding no guard, comes to one of the paths.
EnterPath(w) ==
    /\ lock_todo[w] = <<>>
    /\ \E path \in LockPaths : lock_todo' = [lock_todo EXCEPT ![w] = path]
    /\ UNCHANGED <<outside_locks, lock_owner>>

\* mutex.lock() returns once no worker holds the guard; until then w blocks.
LockMutex(w) ==
    /\ lock_todo[w] # <<>>
    /\ Head(lock_todo[w]).op = "lock"
    /\ lock_owner[Head(lock_todo[w]).mutex] = None
    /\ lock_owner' = [lock_owner EXCEPT
                        ![Head(lock_todo[w]).mutex] = Some(w)]
    /\ lock_todo' = [lock_todo EXCEPT ![w] = Tail(@)]
    /\ UNCHANGED outside_locks

\* The guard goes out of scope.
DropGuard(w) ==
    /\ lock_todo[w] # <<>>
    /\ Head(lock_todo[w]).op = "unlock"
    /\ lock_owner' = [lock_owner EXCEPT
                        ![Head(lock_todo[w]).mutex] = None]
    /\ lock_todo' = [lock_todo EXCEPT ![w] = Tail(@)]
    /\ UNCHANGED outside_locks

NextLocks ==
    \E w \in Workers : EnterPath(w) \/ LockMutex(w) \/ DropGuard(w)

SpecLocks == InitLocks /\ [][NextLocks]_vars

\* ------------------------------------------------------------------ claims
RECURSIVE SumSizes(_)
SumSizes(s) == IF s = <<>> THEN 0 ELSE Head(s).size + SumSizes(Tail(s))

\* the page records a URL has
RecordsOf(u) ==
    {p \in BagToSet(page_records) : set_fragment_none(p.url) = u}

RECURSIVE CopiesOfAll(_)
\* the number of records of the bag page_records that are in the set ps
CopiesOfAll(ps) ==
    IF ps = {} THEN 0
    ELSE LET p == CHOOSE x \in ps : TRUE
         IN  CopiesIn(p, page_records) + CopiesOfAll(ps \ {p})

\* C1: every URL is treated as first-seen, and so enqueued by the
\* check-then-insert on the visited registry, at most once in a crawl.
C1_RegisteredOnce ==
    \A u \in BagToSet(enqueued) : CopiesIn(u, enqueued) <= 1

\* C2: for every task and every outcome of the fetches (HTTP 429 and body
\* failures being finitely many), all workers eventually stop and crawl
\* returns a result, also when no page was ever counted.
C2_CrawlReturns == <>(main_pc = "returned")

\* C4: no URL is recorded and counted as a page more than once: each
\* fragment-stripped URL has at most one page record.
C4_NoDuplicatePage ==
    \A p \in BagToSet(page_records) :
        CopiesOfAll(RecordsOf(set_fragment_none(p.url))) <= 1

\* C9: the returned CrawlResult holds in pages[] every page record the workers
\* created, pages_count is the length of pages[] and total_size is the sum of
\* their sizes.
C9_ResultHoldsPages ==
    main_pc = "returned" =>
        /\ BagOfSeq(result.pages) = page_records
        /\ result.pages_count = Len(result.pages)
        /\ result.total_size = SumSizes(result.pages)

\* C10: a URL that robots.txt disallows is never fetched, whichever worker
\* dequeues it: no worker holds a response for it and it has no page record.
C10_DisallowedNeverFetched ==
    /\ \A w \in Workers :
          pc[w] \in {"render", "record", "filter_visited", "insert_visited",
                     "enqueue_important", "enqueue_regular"}
              => is_allowed(current_url[w])
    /\ \A p \in BagToSet(page_records) : is_allowed(p.url)

\* The positions of a worker that holds a fetched response.
Fetching == {"fetch", "render", "record", "filter_visited", "insert_visited",
             "enqueue_important", "enqueue_regular"}

\* worker w took a step
Acted(w) == pc'[w] # pc[w]

\* C3: the processed counter never exceeds the budget by more than the
\* fetches in flight when it was reached (one per other worker), in every
\* state and in the returned result; a worker that observes the counter at or
\* above the budget stops instead of processing a URL.
C3_Budget ==
    /\ [](pages_count <= max_links_or_default(task) + (NumWorkers - 1))
    /\ [](main_pc = "returned" =>
             result.pages_count <= max_links_or_default(task)
                                   + (NumWorkers - 1))
    /\ [][\A w \in Workers :
             (pc[w] = "loop" /\ Acted(w)
              /\ pages_count >= max_links_or_default(task))
                 => pc'[w] = "done"]_vars

\* C3 witness: the counter stands at the budget plus one fetch per other
\* worker, and a worker has stopped on the budget.
C3_Witness ==
    /\ max_links_or_default(task) >= 1
    /\ pages_count = max_links_or_default(task) + (NumWorkers - 1)
    /\ \E w \in Workers : pc[w] = "done"

\* C5: a worker fetches a URL only with a depth, read at dequeue, below
\* max_depth; an entry of depth >= max_depth is dropped at dequeue with no
\* fetch, no page record and no change of a counter.
C5_DepthCutOff ==
    /\ [](\A w \in Workers :
             pc[w] \in Fetching => current_depth[w] < task.max_depth)
    /\ [][\A w \in Workers :
             (pc[w] = "dequeue" /\ Acted(w)) =>
                 LET local == local_urls_to_process[w]
                     url == local[Len(local)]
                     depth == IF url \in DOMAIN depth_map
                              THEN depth_map[url] ELSE 0
                 IN  /\ depth >= task.max_depth =>
                           /\ pc'[w] = "loop"
                           /\ UNCHANGED <<pages_count, total_size,
                                          page_records, important_queue,
                                          regular_queue, visited, depth_map>>
                     /\ depth < task.max_depth =>
                           /\ pc'[w] = "fetch"
                           /\ current_url'[w] = url
                           /\ current_depth'[w] = depth]_vars

\* C5 witness: a URL recorded at depth max_depth was enqueued, has left the
\* frontier and every local buffer, and has no page record.
C5_Witness ==
    \E u \in DOMAIN depth_map :
        /\ task.max_depth >= 1
        /\ depth_map[u] >= task.max_depth
        /\ BagIn(u, enqueued)
        /\ ~InSeq(u, important_queue) /\ ~InSeq(u, regular_queue)
        /\ \A w \in Workers : ~InSeq(u, local_urls_to_process[w])
        /\ RecordsOf(u) = {}
        /\ pages_count >= 1

\* C6: for every child a worker enqueues while it processes a parent, the
\* depth recorded for the child is the depth the worker read for the parent
\* plus one.
C6_ChildDepth ==
    \A w \in Workers :
        pc[w] \in {"enqueue_important", "enqueue_regular"} =>
            \A c \in SeqToSet(unvisited_links[w]) :
                depth_map[c] = current_depth[w] + 1

\* host is target_domain itself
SameHost(host, target_domain) == host = target_domain

\* host is some labels, a dot, and target_domain
SubdomainHost(host, target_domain) ==
    \E k \in 2 .. Len(host) :
        /\ host[k] = "."
        /\ SubSeq(host, k + 1, Len(host)) = target_domain

\* the links of a page that may be followed
MayFollow(u) ==
    \/ SameHost(u.host, task.target_url.host)
    \/ task.follow_subdomains /\ SubdomainHost(u.host, task.target_url.host)

\* C7: a link extracted from a page is enqueued only if its host is the
\* seed's host or, with follow_subdomains, a sub-domain of it; the links a
\* worker keeps for registration are exactly those of the page with such a
\* host.  The sub-domain link of the seed page is kept exactly when
\* follow_subdomains is set, and a link to another domain never.
C7_DomainFilter ==
    /\ \A u \in BagToSet(enqueued) : MayFollow(u)
    /\ \A w \in Workers :
          pc[w] = "filter_visited" =>
              LET links == extract_links_from_html(current_url[w], body[w])
              IN  /\ SeqToSet(unvisited_links[w])
                       = {l \in SeqToSet(links) : MayFollow(l)}
                  /\ (current_url[w] = SeedUrl /\ body[w] = "static") =>
                        /\ InSeq(PageSub, unvisited_links[w])
                              <=> task.follow_subdomains
                        /\ ~InSeq(PageTrap, unvisited_links[w])
                        /\ InSeq(PageA, unvisited_links[w])
    /\ ~BagIn(PageOther, enqueued)
    /\ ~BagIn(PageTrap, enqueued)
    /\ ~task.follow_subdomains => ~BagIn(PageSub, enqueued)

\* C7 witness: with follow_subdomains the sub-domain link of the seed page
\* was enqueued, after the page that links to another domain was processed.
C7_Witness ==
    /\ task.follow_subdomains
    /\ BagIn(PageSub, enqueued)
    /\ RecordsOf(PageB) # {}
    /\ RecordsOf(SeedUrl) # {}

\* every URL a worker or the frontier holds
Held ==
    SeqToSet(important_queue) \cup SeqToSet(regular_queue)
    \cup UNION {SeqToSet(local_urls_to_process[w]) : w \in Workers}
    \cup {current_url[w] : w \in Workers}

\* C8: in the end-to-end scenario the crawl completes, no cross-domain URL is
\* ever enqueued or fetched, no depth-1 child is fetched or expanded, and
\* pages_count is at most 4, also in the returned result.
C8_EndToEnd ==
    /\ [](/\ Held \cap {PageOther, PageTrap} = {}
          /\ visited \cap {PageOther, PageTrap} = {}
          /\ ~BagIn(PageOther, enqueued) /\ ~BagIn(PageTrap, enqueued))
    /\ [](/\ \A w \in Workers :
                pc[w] \in Fetching => current_url[w] = HomeUrl
          /\ \A c \in {Child1, Child2, Child3} : RecordsOf(c) = {}
          /\ GrandChild \notin Held \cup visited
          /\ ~BagIn(GrandChild, enqueued))
    /\ [](pages_count <= 4)
    /\ [](main_pc = "returned" => result.pages_count <= 4)
    /\ <>(main_pc = "returned")

\* C8 witness: the crawl returned after the three children were enqueued and
\* dropped, with the home page as its only page.
C8_Witness ==
    /\ main_pc = "returned"
    /\ task.target_url = HomeUrl
    /\ \A c \in {Child1, Child2, Child3} : BagIn(c, enqueued)
    /\ result.pages_count = 1
    /\ RecordsOf(HomeUrl) # {}

\* the indices of the rules of a group whose pattern matches the path
MatchingRules(rules, path) ==
    {i \in 1 .. Len(rules) : path_matches(rules[i].pattern, path)}

\* the decision of a group: that of its last matching rule in file order
GroupDecision(rules, path) ==
    LET m == MatchingRules(rules, path)
    IN  IF m = {} THEN None
        ELSE LET last == CHOOSE i \in m : \A j \in m : j <= i
             IN  Some(rules[last].kind = "Allow")

\* the rule groups of the parsed file, the ungrouped rules included
AllGroups ==
    {robots_txt.rules[a] : a \in DOMAIN robots_txt.rules}
    \cup {robots_txt.default_rules}

\* the file of the example: Disallow: /a, Allow: /a/b under `*`
ExampleFile ==
    RobotsFile(<<>>, <<DisallowLine(PathA), AllowLine(PathAB)>>, <<>>, <<>>,
               <<>>)

\* C11: within one rule group the last rule in file order whose pattern
\* matches the path decides (Allow gives true, Disallow false); a group with
\* no matching rule decides nothing, and when no rule matches anywhere
\* can_fetch allows.  With Disallow: /a, Allow: /a/b under `*`, /a/b/c is
\* allowed and /a/x is denied.
C11_LastMatchWins ==
    rt_pc = "answered" =>
        /\ \A g \in AllGroups :
              check_rules(g, rt_path) = GroupDecision(g, rt_path)
        /\ (\A g \in AllGroups : MatchingRules(g, rt_path) = {})
              => rt_answer = TRUE
        /\ (DOMAIN robots_txt.rules = {Star}
            /\ robots_txt.default_rules = <<>>
            /\ GroupDecision(robots_txt.rules[Star], rt_path) # None)
              => rt_answer = GroupDecision(robots_txt.rules[Star], rt_path)[1]
        /\ (rt_file = ExampleFile /\ rt_path = PathABC) => rt_answer = TRUE
        /\ (rt_file = ExampleFile /\ rt_path = PathAX) => rt_answer = FALSE
        /\ (rt_file = ExampleFile /\ rt_path = PathC) => rt_answer = TRUE

\* C11 witness: the example file was parsed and /a/b/c was allowed by the
\* later Allow rule although the earlier Disallow rule matches as well.
C11_Witness ==
    /\ rt_pc = "answered"
    /\ rt_file = ExampleFile
    /\ rt_path = PathABC
    /\ MatchingRules(robots_txt.rules[Star], rt_path) = {1, 2}
    /\ rt_answer = TRUE

\* agent is a case-insensitive prefix of the request agent
PrefixOfAgent(agent, request_agent) ==
    /\ Len(agent) <= Len(request_agent)
    /\ to_lowercase(agent)
         = to_lowercase(SubSeq(request_agent, 1, Len(agent)))

\* the decisions a tier can give: those of its groups that have a match
Decisions(agents) ==
    {GroupDecision(robots_txt.rules[a], rt_path)[1] :
        a \in {x \in agents \cap DOMAIN robots_txt.rules :
                  GroupDecision(robots_txt.rules[x], rt_path) # None}}

ExactDecisions == Decisions({to_lowercase(rt_user_agent)})

PrefixDecisions ==
    Decisions({a \in DOMAIN robots_txt.rules :
                  PrefixOfAgent(a, rt_user_agent)})

StarDecisions == Decisions({Star})

DefaultDecisions ==
    IF GroupDecision(robots_txt.default_rules, rt_path) = None THEN {}
    ELSE {GroupDecision(robots_txt.default_rules, rt_path)[1]}

\* C12: can_fetch returns the verdict of the first tier that has a matching
\* rule, the tiers being the exact-agent group, the groups whose agent is a
\* case-insensitive prefix of the request agent, the `*` group and the
\* ungrouped rules, in this order; with no matching rule it allows.
C12_TierOrder ==
    rt_pc = "answered" =>
        IF ExactDecisions # {} THEN rt_answer \in ExactDecisions
        ELSE IF PrefixDecisions # {} THEN rt_answer \in PrefixDecisions
        ELSE IF StarDecisions # {} THEN rt_answer \in StarDecisions
        ELSE IF DefaultDecisions # {} THEN rt_answer \in DefaultDecisions
        ELSE rt_answer = TRUE

\* C12 witness: the exact group has no matching rule, a prefix group denies,
\* the `*` group and the ungrouped rules allow, and the answer is the denial.
C12_Witness ==
    /\ rt_pc = "answered"
    /\ to_lowercase(rt_user_agent) \in DOMAIN robots_txt.rules
    /\ ExactDecisions = {}
    /\ PrefixDecisions = {FALSE}
    /\ StarDecisions = {TRUE}
    /\ DefaultDecisions = {TRUE}
    /\ rt_answer = FALSE

\* the <url> and the <sitemap> locations a sitemap document lists
PageLocs(doc) == {doc[i].loc : i \in {j \in 1 .. Len(doc) : doc[j].kind = "url"}}
SubSitemapLocs(doc) ==
    {doc[i].loc : i \in {j \in 1 .. Len(doc) : doc[j].kind = "sitemap"}}

\* the sitemap documents that were requested
FetchedSitemaps ==
    {http_log[i].target :
        i \in {j \in 1 .. Len(http_log) : http_log[j].kind = "sitemap"}}

\* document A lists B as a sub-sitemap and B lists A
CyclicIndex ==
    /\ DOMAIN sm_docs = {SitemapA, SitemapB}
    /\ SitemapB \in SubSitemapLocs(sm_docs[SitemapA])
    /\ SitemapA \in SubSitemapLocs(sm_docs[SitemapB])

\* C13: for a cyclic sitemap index (A lists B, B lists A) get_sitemap_urls
\* fetches both documents and returns exactly the page URLs of A and of B,
\* no sub-sitemap URL among them.
C13_CyclicIndex ==
    (sm_pc = "returned" /\ CyclicIndex) =>
        /\ FetchedSitemaps = {SitemapA, SitemapB}
        /\ sm_result = Some(PageLocs(sm_docs[SitemapA])
                            \cup PageLocs(sm_docs[SitemapB]))
        /\ sm_result[1] \cap {SitemapA, SitemapB} = {}

\* C14: when the seed cannot be parsed or has no host, crawl returns its error
\* before any work: no worker was spawned, no page, robots.txt or sitemap was
\* requested, and no renderer was started or is running.
C14_InvalidSeedNoWork ==
    main_pc = "failed" =>
        /\ \A w \in Workers : pc[w] = "unspawned"
        /\ http_log = <<>>
        /\ page_records = EmptyBag /\ pages_count = 0
        /\ browsers = <<>>
        /\ headless_browser = None

\* the fetches of the seed that have ended: its page records and its
\* body-decode failures
SeedFetches == CopiesOfAll(RecordsOf(SeedUrl)) + faults

\* C15: after its body-decode failure a URL is fetched again at most 3
\* times in total, whether the retries succeed or fail again.
C15_RetryCap == faults >= 1 => SeedFetches - 1 <= MaxRetries

\* ------------------------------------------------------------------ C16
\* the pages recorded for URL u with no status code
FailedRecords(u) ==
    {r \in BagToSet(page_records) : r.url = u /\ r.status_code = None}

\* C16: a fetch that fails with a network error adds exactly one zero-size
\* page without status code for the URL, adds one to the processed counter,
\* leaves total_size, both frontier queues and the worker's retry queue as
\* they are, and sends the worker back to the head of its loop; the other
\* workers and the caller are not disturbed.
C16_NetworkErrorAbsorbed ==
    [][\A w \in Workers :
          FetchNetworkError(w) =>
             /\ page_records' =
                   page_records (+) SetToBag({[url |-> current_url[w],
                                               size |-> 0,
                                               status_code |-> None]})
             /\ pages_count' = pages_count + 1
             /\ total_size' = total_size
             /\ important_queue' = important_queue
             /\ regular_queue' = regular_queue
             /\ enqueued' = enqueued
             /\ visited' = visited
             /\ retry_queue' = retry_queue
             /\ local_urls_to_process' = local_urls_to_process
             /\ pc'[w] = "loop"
             /\ \A v \in Workers \ {w} : pc'[v] = pc[v]
             /\ main_pc' = main_pc]_vars

\* a failed fetch of the seed was recorded with size 0, and the same worker
\* has gone on to fetch another URL
C16_Witness ==
    \E w \in Workers :
       /\ FailedRecords(SeedUrl) # {}
       /\ \A r \in FailedRecords(SeedUrl) : r.size = 0
       /\ total_size = 0
       /\ pages_count >= 1
       /\ pc[w] = "fetch"
       /\ current_url[w] # SeedUrl

\* ------------------------------------------------------------------ C17
\* no worker is at work on URL u
Finished(u) == \A w \in Workers : current_url[w] # u

\* the links of a body that the crawl follows
FollowedLinks(u, content) ==
    SeqToSet(links_to_follow(extract_links_from_html(u, content),
                             base_domain, task.follow_subdomains))

\* link l is registered, and was put into a queue (the seed: at the start)
Registered(l) ==
    /\ l \in visited
    /\ l = set_fragment_none(task.target_url) \/ BagIn(l, enqueued)

\* the bodies a page record of this size can hold
RecordedBodies(r) ==
    {content \in {"static", "rendered"} : BodyLen(r.url, content) = r.size}

\* without a renderer the response's HTML goes straight to the page record
NoRendererStep(w) ==
    FetchOk(w) /\ use_headless_chrome /\ ~shared_browser =>
        body'[w] = "static" /\ pc'[w] = "record"

\* whatever the renderer's two calls return, the worker goes on to record
\* the page; a failed content extraction leaves the response's HTML in
\* place, a failed link extraction registers no link
RenderSoftStep(w, content_ok, links_ok) ==
    RenderWith(w, content_ok, links_ok) =>
        /\ pc'[w] = "record"
        /\ \A v \in Workers \ {w} : pc'[v] = pc[v]
        /\ main_pc' = main_pc
        /\ ~content_ok => body'[w] = "static"
        /\ ~links_ok => /\ visited' = visited
                        /\ important_queue' = important_queue
                        /\ regular_queue' = regular_queue

\* the step that leaves "record" adds one page of the size of the body in
\* hand, and counts it
RecordStep(w) ==
    pc[w] = "record" /\ pc'[w] # "record" =>
        /\ page_records' =
              page_records
              (+) SetToBag({[url |-> current_url[w],
                             size |-> BodyLen(current_url[w], body[w]),
                             status_code |-> Some(200)]})
        /\ pages_count' = pages_count + 1
        /\ total_size' = total_size + BodyLen(current_url[w], body[w])

\* the links in the response's HTML of every page that is recorded and done
\* with are registered
StaticLinksRegistered ==
    \A r \in BagToSet(page_records) :
       r.status_code # None /\ Finished(r.url) =>
          \A l \in FollowedLinks(r.url, "static") : Registered(l)

\* the links in the recorded body of every page that is recorded and done
\* with are registered
BodyLinksRegistered ==
    \A r \in BagToSet(page_records) :
       r.status_code # None /\ Finished(r.url) =>
          \A content \in RecordedBodies(r) :
             \A l \in FollowedLinks(r.url, content) : Registered(l)

RobotsRequests(domain) ==
    {i \in 1 .. Len(http_log) :
        http_log[i].kind = "robots" /\ http_log[i].target = domain}

\* those sent by worker w's manager
RobotsRequestsBy(w, domain) ==
    {i \in RobotsRequests(domain) : http_log[i].by = w}

\* C18: when robots.txt of the domain is answered with a status that is no
\* success, or the request fails, every URL of the domain is allowed and a
\* manager sends no second robots.txt request for the domain, however much
\* time passes.
C18_NegativeCachedForever ==
    robots_status \in {"404", "error"} =>
        \A w \in CheckingWorkers :
           /\ is_allowed_result[w] # Some(FALSE)
           /\ Cardinality(RobotsRequestsBy(w, SiteDomain)) <= 1

\* ------------------------------------------------------------------ C19
\* C19: all workers of a crawl share one robots policy cache: two robots.txt
\* requests for a domain are more than the validity of a cache entry apart,
\* and while one worker's manager holds a valid policy of the domain, every
\* other checking worker's manager holds it too.
C19_SharedRobotsCache ==
    /\ \A i, j \in RobotsRequests(SiteDomain) :
          i < j => http_log[j].at - http_log[i].at > CacheValidity
    /\ \A w, v \in CheckingWorkers :
          ~needs_refresh(worker_robots_manager[w], SiteDomain) =>
             /\ ~needs_refresh(worker_robots_manager[v], SiteDomain)
             /\ worker_robots_manager[v].robots_cache[SiteDomain]
                  = worker_robots_manager[w].robots_cache[SiteDomain]

\* ------------------------------------------------------------------ C20
\* C20: robots and sitemap caches outlive a crawl: the second crawl on the
\* same Crawler, run while the entries of the first are valid, sends no
\* request for robots.txt or a sitemap; its frontier queues, visited set and
\* depth map are new ones that hold the seeds of this crawl only.
C20_CachesOutliveCrawl ==
    [][/\ crawl_no = 2 /\ now <= CacheValidity => http_log' = http_log
       /\ crawl_no = 2 /\ SeedFrontier =>
             /\ regular_queue' = <<>>
             /\ visited' = {set_fragment_none(task.target_url)}
             /\ DOMAIN depth_map' = visited'
             /\ SeqToSet(important_queue')
                  \subseteq visited' \cup SeqToSet(sitemap_urls')]_vars

\* ------------------------------------------------------------------ C21
\* C21: a crawl with rendering switched on starts at most one renderer, and
\* when crawl returns its result no renderer is left running.
C21_OneRenderer ==
    /\ Len(browsers) <= crawl_no
    /\ main_pc = "returned" =>
          \A i \in 1 .. Len(browsers) : browsers[i] # "running"

\* ------------------------------------------------------------------ C22
\* the renderers that stop was called on in this step
StoppedNow == {i \in 1 .. Len(browsers) :
                  browsers[i] = "running" /\ browsers'[i] = "stopped"}

\* C22: the renderer is stopped once per crawl, after every worker has
\* joined; a worker that calls the renderer finds it running; when crawl has
\* returned, no renderer it started is still running and at most one per
\* crawl was stopped; start on a running renderer and stop on a stopped one
\* change nothing.
C22_TornDownOnce ==
    /\ [][StoppedNow # {} =>
            /\ Cardinality(StoppedNow) = 1
            /\ \A w \in Workers : pc[w] = "done"]_vars
    /\ [](\A w \in Workers :
             pc[w] = "render" =>
                /\ headless_browser # None
                /\ browsers[headless_browser[1]] = "running")
    /\ [](main_pc \in {"returned", "failed"} =>
             /\ \A i \in 1 .. Len(browsers) : browsers[i] # "running"
             /\ Cardinality({i \in 1 .. Len(browsers) :
                                browsers[i] = "stopped"}) <= crawl_no)
    /\ [](\A i \in 1 .. Len(browsers) : \A launch_ok \in BOOLEAN :
             /\ browsers[i] = "running" =>
                   start(browsers[i], launch_ok) = browsers[i]
             /\ browsers[i] = "stopped" => stop(browsers[i]) = browsers[i])

\* ------------------------------------------------------------------ C23
\* the frontier: both queues and every worker's buffer and retry queue
FrontierExhausted ==
    /\ important_queue = <<>>
    /\ regular_queue = <<>>
    /\ \A w \in Workers :
          local_urls_to_process[w] = <<>> /\ retry_queue[w] = <<>>

\* worker w leaves its loop at the page budget check
StoppedByBudget(w) == pc[w] = "loop" /\ pc'[w] = "done"

\* C23: with max_links = None the page budget check never stops a worker,
\* and the frontier is exhausted when crawl returns.
C23_NoBudget ==
    /\ [][task.max_links = None =>
            \A w \in Workers : ~StoppedByBudget(w)]_vars
    /\ [](task.max_links = None /\ main_pc = "returned" =>
            FrontierExhausted)

\* ------------------------------------------------------------------ C24
\* C24: a result is created InProgress; when crawl has returned it, it is
\* Completed with end_time set and end_time >= start_time; Failed appears
\* only on a crawl that could not start; and a result that is Completed or
\* Failed becomes InProgress again in no step (the next crawl makes a new
\* result).
C24_ResultStatus ==
    /\ [][/\ crawl_no' # crawl_no => result'.status = "InProgress"
          /\ (crawl_no' = crawl_no /\ result.status # "InProgress") =>
                result'.status = result.status]_vars
    /\ [](main_pc = "returned" =>
            /\ result.status = "Completed"
            /\ result.end_time # None
            /\ result.end_time[1] >= result.start_time)
    /\ [](result.status = "Failed" => main_pc = "failed")

\* the second crawl, begun at a later instant, has returned its result
C24_Witness ==
    /\ crawl_no = MaxCrawls
    /\ main_pc = "returned"
    /\ result.start_time > 0
    /\ result.status = "Completed"
    /\ result.pages_count > 0

\* ------------------------------------------------------------------ C25
\* the reason reported for each of the nine signals
ReasonOf ==
    <<"noscript warning found",
      "JavaScript framework root element found",
      "JavaScript framework script found",
      "Ember.js application detected",
      "Lazy-loaded images found",
      "Web components found",
      "Empty content container found",
      "Loading indicator found",
      "Dynamic content initialization found">>

\* the signals present in a text
SignalsOf(text) ==
    LET els == SeqToSet(parse_document(text))
    IN  {k \in 1 .. 9 :
           CASE k = 1 -> \E el \in els : is_tag(el, <<"n", "o", "s", "c", "r", "i", "p", "t">>)
                                         /\ noscript_warning(el)
             [] k = 2 -> \E el \in els : \E i \in 1 .. 7 : root_selector(el)[i]
             [] k = 3 -> \E el \in els : /\ is_tag(el, <<"s", "c", "r", "i", "p", "t">>)
                                         /\ has_attr(el, <<"s", "r", "c">>)
                                         /\ framework_script(el)
             [] k = 4 -> \E el \in els : meta_selector(el)
             [] k = 5 -> \E el \in els : img_selector(el)
             [] k = 6 -> \E el \in els : component_selector(el)
             [] k = 7 -> \E el \in els : content_selector(el)
                                         /\ trim(el.inner) = <<>>
             [] k = 8 -> \E el \in els : loading_selector(el)
             [] k = 9 -> dynamic_triggers(text)}

\* the text has nothing but one <article> with text in it
OnlyPopulatedArticle(text) ==
    LET d == parse_document(text)
    IN  /\ Len(d) = 1
        /\ is_tag(d[1], <<"a", "r", "t", "i", "c", "l", "e">>)
        /\ d[1].attrs = <<>>
        /\ trim(d[1].inner) # <<>>

\* C25: is_javascript_dependent changes nothing but its result; it reports
\* dependent exactly when one of the nine signals is present, with one
\* reason for each signal present; the text with <div id='root'></div> and
\* <script src='/static/js/main.chunk.js'> is dependent with the framework
\* script reason, and a text that is only a populated <article> is not
\* dependent.
C25_Classifier ==
    js_pc = "returned" =>
        LET r == js_result[1]
            d == parse_document(html)
        IN  /\ r.dependent <=> (SignalsOf(html) # {})
            /\ Len(r.reasons) = Cardinality(SignalsOf(html))
            /\ SeqToSet(r.reasons) = {ReasonOf[k] : k \in SignalsOf(html)}
            /\ d = <<DivRoot, ScriptChunk>> =>
                  /\ r.dependent
                  /\ ReasonOf[3] \in SeqToSet(r.reasons)
            /\ OnlyPopulatedArticle(html) => ~r.dependent

\* ------------------------------------------------------------------ C26
\* s = t \o some sequence
IsPrefixOf(t, s) == Len(t) <= Len(s) /\ SubSeq(s, 1, Len(t)) = t

\* worker w is in the step that pops from the important queue
RefillsFromImportant(w) == pc[w] = "refill_important" /\ pc'[w] # pc[w]

\* worker w is in the step that pops from the regular queue
RefillsFromRegular(w) == pc[w] = "refill_regular" /\ pc'[w] # pc[w]

\* C26: a refill starts with an empty buffer; the pop on the important queue
\* moves at most 10 URLs from the front of that queue into the buffer and
\* leaves the regular queue alone; the pop on the regular queue happens only
\* with the buffer still empty, moves at most 10 URLs from the front of the
\* regular queue and leaves the important queue alone; no other step takes
\* a URL out of a queue.
C26_BatchFromOneTier ==
    [][\A w \in Workers :
          /\ RefillsFromImportant(w) =>
                /\ local_urls_to_process[w] = <<>>
                /\ Len(local_urls_to_process'[w]) <= BatchSize
                /\ important_queue =
                       local_urls_to_process'[w] \o important_queue'
                /\ regular_queue' = regular_queue
          /\ RefillsFromRegular(w) =>
                /\ local_urls_to_process[w] = <<>>
                /\ Len(local_urls_to_process'[w]) <= BatchSize
                /\ regular_queue =
                       local_urls_to_process'[w] \o regular_queue'
                /\ important_queue' = important_queue
          /\ (pc'[w] # pc[w] /\ ~RefillsFromImportant(w)
                /\ ~RefillsFromRegular(w)) =>
                /\ IsPrefixOf(important_queue, important_queue')
                /\ IsPrefixOf(regular_queue, regular_queue')]_vars

\* a worker holds a full batch of regular URLs while more wait in the queue
C26_Witness ==
    \E w \in Workers :
        /\ pc[w] = "dequeue"
        /\ Len(local_urls_to_process[w]) = BatchSize
        /\ \A i \in 1 .. BatchSize :
              local_urls_to_process[w][i] = LeafUrl("regular", i)
        /\ regular_queue = <<LeafUrl("regular", HubLeaves)>>

\* ------------------------------------------------------------------ C27
\* s is t with some of its first elements removed
IsSuffixOf(s, t) ==
    Len(s) <= Len(t) /\ s = SubSeq(t, Len(t) - Len(s) + 1, Len(t))

\* one step of a FIFO queue: elements leave at the front or join at the back
FifoStep(q, q_next) == IsSuffixOf(q_next, q) \/ IsPrefixOf(q, q_next)

\* worker w takes the next URL of its batch
TakesFromBatch(w) == pc[w] = "dequeue" /\ pc'[w] # pc[w]

\* C27: each queue loses URLs at its front and gains them at its back, a
\* batch is in the buffer in the order it had in the queue, and a worker
\* takes the URLs of its buffer from the front, in that order.
C27_FifoOrder ==
    [][/\ FifoStep(important_queue, important_queue')
       /\ FifoStep(regular_queue, regular_queue')
       /\ \A w \in Workers :
            TakesFromBatch(w) =>
               local_urls_to_process'[w] = Tail(local_urls_to_process[w])]_vars

\* ------------------------------------------------------------------ C28
\* the importance markers
ImportanceMarkers ==
    {"crates", "categories", "keywords", "docs", "blog", "products",
     "articles"}

\* the tier of a URL by the importance markers
classify_tier(u) ==
    IF \E m \in ImportanceMarkers : contains_dir(u, m)
    THEN "important" ELSE "regular"

\* the URLs a step appends to a queue
Appended(q, q_next) ==
    IF IsPrefixOf(q, q_next) /\ Len(q_next) > Len(q)
    THEN {q_next[i] : i \in (Len(q) + 1) .. Len(q_next)}
    ELSE {}

\* C28: every URL a step puts in the important queue contains an importance
\* marker and every URL a step puts in the regular queue contains none,
\* whether it is a link of a static page, a link of a rendered page or a
\* URL requeued after HTTP 429.
C28_OneTierFunction ==
    [][/\ \A u \in Appended(important_queue, important_queue') :
             classify_tier(u) = "important"
       /\ \A u \in Appended(regular_queue, regular_queue') :
             classify_tier(u) = "regular"]_vars

\* ------------------------------------------------------------------ C29
RECURSIVE Occurrences(_, _)
\* how often u occurs in the sequence q
Occurrences(q, u) ==
    IF q = <<>> THEN 0
    ELSE (IF Head(q) = u THEN 1 ELSE 0) + Occurrences(Tail(q), u)

\* how often u is in the frontier
InFrontier(u) ==
    Occurrences(important_queue, u) + Occurrences(regular_queue, u)

\* worker w receives HTTP 429
RateLimitedStep(w) ==
    pc[w] = "fetch" /\ pc'[w] # pc[w] /\ faults' = faults + 1

\* the 429 step puts the URL back exactly once and leaves the counters, the
\* records, the visited set and the depth map as they are; no step changes
\* a recorded depth, and a fetch happens at the recorded depth
RequeuedOnceOnly ==
    /\ [][\A w \in Workers :
            RateLimitedStep(w) =>
               /\ Occurrences(important_queue', current_url[w])
                     + Occurrences(regular_queue', current_url[w]) =
                        InFrontier(current_url[w]) + 1
               /\ Len(important_queue') + Len(regular_queue') =
                     Len(important_queue) + Len(regular_queue) + 1
               /\ UNCHANGED <<pages_count, total_size, page_records,
                              visited, depth_map, result, retry_queue,
                              local_urls_to_process>>]_vars
    /\ [][\A u \in DOMAIN depth_map :
            u \in DOMAIN depth_map' /\ depth_map'[u] = depth_map[u]]_vars
    /\ [](\A w \in Workers :
            pc[w] = "fetch" => current_depth[w] = depth_map[current_url[w]])

\* /docs/a was answered with 429 and waits in a queue or a worker's buffer
AwaitsRefetch ==
    /\ faults > 0
    /\ \/ InFrontier(PageA) > 0
       \/ \E w \in Workers : Occurrences(local_urls_to_process[w], PageA) > 0

\* a worker is about to request /docs/a
Requesting(u) == \E w \in Workers : pc[w] = "fetch" /\ current_url[w] = u

SkipsResponse(w) ==
    /\ pc[w] = "fetch"
    /\ pc'[w] = "loop"
    /\ allowed(w, current_url[w])
    /\ faults' = faults
    /\ page_records' = page_records
    /\ \E content_type \in ContentTypes : skips_content_type(content_type)

\* C30: skipping a response with a non-HTML content type records no page,
\* leaves the processed counter, total_size, the visited set, the depth map
\* and both queues as they are, and puts the URL in no retry queue or
\* buffer.
C30_NonHtmlSkipped ==
    [][\A w \in Workers :
          SkipsResponse(w) =>
             /\ UNCHANGED <<pages_count, total_size, page_records, visited,
                            depth_map, important_queue, regular_queue,
                            enqueued, result>>
             /\ UNCHANGED <<retry_queue, local_urls_to_process>>]_vars

\* the seed was answered with a non-HTML content type and skipped: it is
\* visited, nothing is recorded or counted, and no worker or queue holds it
C30_Witness ==
    /\ task.max_depth > 0
    /\ max_links_or_default(task) > 0
    /\ sitemap_urls = <<>>
    /\ visited = {SeedUrl}
    /\ pages_count = 0
    /\ page_records = EmptyBag
    /\ faults = 0
    /\ important_queue = <<>>
    /\ regular_queue = <<>>
    /\ \A w \in Workers :
          /\ current_url[w] = NoUrl
          /\ local_urls_to_process[w] = <<>>
          /\ retry_queue[w] = <<>>

\* the step of worker w from the point of the robots check is a skip: the
\* worker is back at the head of its loop and nothing was counted or recorded
SkipsUrl(w) ==
    /\ pc[w] = "fetch"
    /\ pc'[w] = "loop"
    /\ pages_count' = pages_count
    /\ page_records' = page_records

\* the step of worker w from the point of the robots check is the outcome of
\* a request: a response in hand, or a failed request counted and recorded
FetchesUrl(w) ==
    /\ pc[w] = "fetch"
    /\ \/ pc'[w] = "record" /\ body'[w] = "static"
       \/ /\ pc'[w] = "loop"
          /\ pages_count' = pages_count + 1
          /\ page_records' =
                 page_records (+) SetToBag({error_page(current_url[w])})

\* C31: a worker whose id is a multiple of three skips the URLs its robots
\* check answers "disallowed" without a record or a count, and fetches those
\* it answers "allowed" and those for which the check fails; every other
\* worker fetches whatever it dequeued, the disallowed URLs included.
C31_RobotsSampling ==
    [][\A w \in Workers :
          (pc[w] = "fetch" /\ Acted(w)) =>
              LET answer == is_allowed_call(current_url[w])
              IN  IF w % 3 = 0 /\ answer.is_ok /\ ~answer.value
                  THEN SkipsUrl(w)
                  ELSE FetchesUrl(w) /\ ~SkipsUrl(w)]_vars

\* A crawl returned in which the URL without host (its check fails) and the
\* disallowed /b both have a page record, /b through a worker that performs
\* no check.
C31_Witness ==
    /\ main_pc = "returned"
    /\ \E p \in BagToSet(page_records) : p.url = MailUrl
    /\ \E p \in BagToSet(page_records) : p.url = PageB

\* the file has a group for the agent whose only directive is a blank
\* Disallow: its User-agent line opens a group, the blank Disallow follows, and
\* the file ends or the next group begins
HasBlankGroup(file, agent) ==
    \E i \in 1 .. (Len(file) - 1) :
       /\ file[i].directive = "user-agent"
       /\ to_lowercase(file[i].value) = agent
       /\ i > 1 => file[i - 1].directive # "user-agent"
       /\ file[i + 1] = DisallowLine(<<>>)
       /\ i + 2 <= Len(file) => file[i + 2].directive = "user-agent"

\* C32: when the file holds a group for the requesting agent whose only
\* directive is a blank Disallow, can_fetch answers "allowed" for every path,
\* whatever the groups in front of it and behind it hold.
C32_BlankDisallowAllowsAll ==
    (rt_pc = "answered"
     /\ HasBlankGroup(rt_file, to_lowercase(rt_user_agent)))
        => rt_answer = TRUE

\* ------------------------------------------------------------------ C33
\* the step in which is_allowed of worker w returns what it found in the
\* per-URL cache: a new answer, nothing written, no request sent
ServedFromCache(w) ==
    /\ is_allowed_result'[w] # is_allowed_result[w]
    /\ allowed_urls_cache' = allowed_urls_cache
    /\ is_allowed_pc' = is_allowed_pc

\* the entries of the cache that are at most 60 seconds old
UsableEntries ==
    {i \in 1 .. Len(allowed_urls_cache) :
        now - allowed_urls_cache[i].at <= UrlCacheTtl}

\* the verdict the robots.txt of the site gives for a URL
ComputedVerdict(u) ==
    can_fetch(parse(SiteRobotsFile), CrawlerUserAgent, url_path(u),
              <<Star>>)

\* C33: the per-URL cache never holds more than its capacity plus one entry;
\* every entry holds the verdict computed for its URL, and an answer served
\* from the cache is the verdict of an entry for a checked URL that is at
\* most 60 seconds old.
C33_CacheBoundedAndFresh ==
    /\ [](Len(allowed_urls_cache) <= UrlCacheCapacity + 1)
    /\ [](\A i \in 1 .. Len(allowed_urls_cache) :
             allowed_urls_cache[i].allowed
                 = ComputedVerdict(allowed_urls_cache[i].url))
    /\ [][\A w \in CheckingWorkers :
             ServedFromCache(w) =>
                 \E i \in UsableEntries :
                    /\ allowed_urls_cache[i].url \in CheckedUrls
                    /\ is_allowed_result'[w]
                           = Some(allowed_urls_cache[i].allowed)]_vars

\* ------------------------------------------------------------------ C34
\* the HTML of the response to worker w's request arrives
ReceivesHtml(w) ==
    pc[w] = "fetch" /\ body[w] = "none" /\ body'[w] = "static"

\* the page of worker w is JavaScript-dependent, it matches an importance
\* pattern or lies at depth 0 or 1, and rendering is enabled
ToBeRendered(w) ==
    /\ JsDependent(current_url[w])
    /\ \/ has_important_patterns_static(current_url[w])
       \/ current_depth[w] <= 1
    /\ use_headless_chrome
    /\ shared_browser

\* C34: when the HTML of a page arrives, the worker goes on to the renderer
\* exactly when the page is to be rendered, and to the page record otherwise;
\* a page that is not to be rendered is recorded and parsed with the HTML of
\* the response.
C34_EscalatesExactly ==
    /\ [][\A w \in Workers :
             ReceivesHtml(w) =>
                 pc'[w] = (IF ToBeRendered(w) THEN "render" ELSE "record")]_vars
    /\ [](\A w \in Workers :
             (pc[w] \in Fetching \ {"fetch"} /\ ~ToBeRendered(w))
                 => pc[w] # "render" /\ body[w] = "static")

\* ------------------------------------------------------------------ C35
\* C35: a depth recorded for a URL is never changed by a later step, and the
\* worker that takes a URL from its batch reads the depth recorded for it.
C35_FirstDepthKept ==
    /\ [][\A u \in DOMAIN depth_map :
             u \in DOMAIN depth_map' /\ depth_map'[u] = depth_map[u]]_vars
    /\ [][\A w \in Workers :
             (pc[w] = "dequeue" /\ pc'[w] = "fetch"
              /\ current_url'[w] \in DOMAIN depth_map)
                 => current_depth'[w] = depth_map[current_url'[w]]]_vars

\* ------------------------------------------------------------------ C36
\* the requests sent for the sitemap document at url
SitemapRequests(url) ==
    {i \in 1 .. Len(http_log) :
        http_log[i].kind = "sitemap" /\ http_log[i].target = url}

\* C36: during a call of get_sitemap_urls no sitemap document is requested
\* twice, whatever the start sitemaps and the documents list. Every turn of
\* the traversal sends one request, so the traversal then ends after at most
\* as many turns as there are sitemap URLs.
C36_SitemapFetchedOnce ==
    \A i \in 1 .. Len(http_log) :
       Cardinality(SitemapRequests(http_log[i].target)) <= 1

\* ------------------------------------------------------------------ C37
\* the URLs waiting in the two queues of the frontier
QueuedUrls ==
    {important_queue[i] : i \in 1 .. Len(important_queue)}
        \cup {regular_queue[i] : i \in 1 .. Len(regular_queue)}

\* C37: every URL waiting in the important or the regular queue is in the
\* visited registry and has a depth recorded in the depth map; this covers the
\* target URL, the seeds taken from the sitemap and the discovered links.
C37_QueuedAreRegistered ==
    \A u \in QueuedUrls : u \in visited /\ u \in DOMAIN depth_map

\* ------------------------------------------------------------------ C38
\* the crawl has returned without having used up its page budget
ReturnedBelowBudget ==
    main_pc = "returned" /\ pages_count < max_links_or_default(task)

\* the URLs that left the front of queue q in this step went to the batch of
\* a worker that was refilling at label l
TakenByRefill(q, q_after, l) ==
    Len(q_after) < Len(q) =>
        \E w \in Workers :
           /\ pc[w] = l
           /\ local_urls_to_process'[w] =
                 local_urls_to_process[w]
                     \o SubSeq(q, 1, Len(q) - Len(q_after))

\* C38: when crawl returns with pages_count below the page budget, both
\* queues are empty, and a URL leaves a queue only into the batch of a worker;
\* so every URL that was enqueued has been dequeued by a worker, also when
\* workers stopped while others were still fetching.
C38_NoWorkLost ==
    /\ [](ReturnedBelowBudget =>
             important_queue = <<>> /\ regular_queue = <<>>)
    /\ [][/\ TakenByRefill(important_queue, important_queue',
                           "refill_important")
          /\ TakenByRefill(regular_queue, regular_queue',
                           "refill_regular")]_vars

\* crawl returned below the budget after links had been enqueued
C38_Witness ==
    /\ ReturnedBelowBudget
    /\ enqueued # EmptyBag
    /\ pages_count > 1

\* ------------------------------------------------------------------ C39
\* worker w is inside lock() of a Mutex whose guard worker holder has; a
\* worker that locks a Mutex it holds itself waits for itself
WaitsFor(w, holder) ==
    /\ lock_todo[w] # <<>>
    /\ Head(lock_todo[w]).op = "lock"
    /\ lock_owner[Head(lock_todo[w]).mutex] = Some(holder)

\* C39: in no state is there a set of workers each of which waits for a lock
\* that a worker of the set holds, whatever paths (dequeue, depth lookup,
\* requeue, static links, rendered links with its four locks) the workers
\* are on.
C39_NoLockCycle ==
    \A waiting \in SUBSET Workers \ {{}} :
       \E w \in waiting : \A holder \in waiting : ~WaitsFor(w, holder)

\* a worker on the rendered path holds the four guards and another worker
\* waits for one of them
C39_Witness ==
    \E w, other \in Workers :
       /\ \A m \in Locks : lock_owner[m] = Some(w)
       /\ w # other
       /\ WaitsFor(other, w)
====
